---- MODULE Spec2Model ----
(***************************************************************************)
(* A model of the RV-3028-C7 real-time-clock driver (src/src/lib.rs).      *)
(*                                                                         *)
(* The device is a bank of 8-bit registers behind a two-wire bus.  Every   *)
(* public operation of the driver is a sequence of bus transactions; the   *)
(* model runs an operation one transaction at a time, so that a bus error  *)
(* or a device event can fall between any two of them.                     *)
(***************************************************************************)
EXTENDS Integers, Sequences, FiniteSets, TLC

VARIABLES
  regs,      \* the device's registers: address -> byte
  mux_addr,  \* the handle's mux address (0: no mux)
  mux_chan,  \* the handle's mux channel byte
  call,      \* the operation in progress, or the last one: [op, ...arguments],
             \* with the locals it computed on entry
  prog,      \* the bus transactions the operation has still to issue
  reg_val,   \* the local `reg_val` of the read-modify-write helpers
  rbuf,      \* the bytes the operation has read so far
  log,       \* the bus transactions issued by the operation, in order
  result,    \* "idle", "running", "ok", "err" or "panic"
  ret,       \* the value returned with Ok
  prev,      \* the call that completed before this one, with its result
  pre,       \* the registers as they were when the operation was called
  ncalls,    \* the number of operations called so far
  mux_sel,   \* the channel byte the mux received last (0: none yet)
  other      \* a second handle on the same bus and mux: its channel, its
             \* operation and the device behind its channel

vars == <<regs, mux_addr, mux_chan, call, prog, reg_val, rbuf, log, result, ret,
          prev, pre, ncalls, mux_sel, other>>

(***************************************************************************)
(* Bytes and bit operations (u8).                                          *)
(***************************************************************************)
RECURSIVE BitAnd(_, _)
BitAnd(a, b) ==
  IF a = 0 \/ b = 0 THEN 0
  ELSE (a % 2) * (b % 2) + 2 * BitAnd(a \div 2, b \div 2)

BitOr(a, b) == a + b - BitAnd(a, b)

\* !(bits) on a u8
BitNot(a) == 255 - a

(***************************************************************************)
(* 64-bit integers.  TLC's integers are 32 bits wide, so an i64 is kept as *)
(* a sign and a magnitude in base 10000, least significant digit first,    *)
(* without leading zeros.                                                  *)
(***************************************************************************)
RECURSIVE BigOf(_)
BigOf(n) == IF n = 0 THEN <<>> ELSE <<n % 10000>> \o BigOf(n \div 10000)

RECURSIVE BigMulC(_, _, _)
BigMulC(x, m, c) ==
  IF x = <<>> THEN BigOf(c)
  ELSE LET t == Head(x) * m + c
       IN <<t % 10000>> \o BigMulC(Tail(x), m, t \div 10000)

BigMul(x, m) == IF m = 0 THEN <<>> ELSE BigMulC(x, m, 0)

\* x + y + c for a carry c of 0 or 1
RECURSIVE BigAdd(_, _, _)
BigAdd(x, y, c) ==
  IF x = <<>> THEN BigMulC(y, 1, c)
  ELSE IF y = <<>> THEN BigMulC(x, 1, c)
  ELSE LET t == Head(x) + Head(y) + c
       IN <<t % 10000>> \o BigAdd(Tail(x), Tail(y), t \div 10000)

\* quotient and remainder of x by a small d > 0
RECURSIVE BigDivRem(_, _)
BigDivRem(x, d) ==
  IF x = <<>> THEN [q |-> <<>>, r |-> 0]
  ELSE LET hi  == BigDivRem(Tail(x), d)
           cur == hi.r * 10000 + Head(x)
           qd  == cur \div d
       IN [q |-> IF hi.q = <<>> /\ qd = 0 THEN <<>> ELSE <<qd>> \o hi.q,
           r |-> cur % d]

RECURSIVE BigLt(_, _)
BigLt(x, y) ==
  IF Len(x) # Len(y) THEN Len(x) < Len(y)
  ELSE IF x = <<>> THEN FALSE
  ELSE LET n == Len(x)
       IN IF x[n] # y[n] THEN x[n] < y[n]
          ELSE BigLt(SubSeq(x, 1, n - 1), SubSeq(y, 1, n - 1))

\* the value of a magnitude known to be below 2^31
RECURSIVE BigToInt(_)
BigToInt(x) == IF x = <<>> THEN 0 ELSE Head(x) + 10000 * BigToInt(Tail(x))

\* i64::MAX = 9223372036854775807
I64Max == <<5807, 5477, 368, 3372, 922>>

I64(n) == [neg |-> n < 0, mag |-> BigOf(IF n < 0 THEN -n ELSE n)]

\* mutant: division that rounds away from zero
I64Div_away_from_zero(a, d) ==
  LET q == BigDivRem(BigMulC(a.mag, 1, d - 1), d).q
  IN [neg |-> a.neg /\ q # <<>>, mag |-> q]

\* a / d : Rust's division truncates toward zero
I64Div(a, d) ==
  LET q == BigDivRem(a.mag, d).q IN [neg |-> a.neg /\ q # <<>>, mag |-> q]

\* a % d : the remainder has the sign of the dividend
I64Rem(a, d) ==
  LET r == BigDivRem(a.mag, d).r IN IF a.neg THEN -r ELSE r

I64Mul(a, m) ==
  LET p == BigMul(a.mag, m) IN [neg |-> a.neg /\ p # <<>>, mag |-> p]

\* a < b
I64Lt(a, b) ==
  IF a.neg # b.neg THEN a.neg
  ELSE IF a.neg THEN BigLt(b.mag, a.mag)
  ELSE BigLt(a.mag, b.mag)

I64Gt(a, b) == I64Lt(b, a)
I64Ge(a, b) == ~I64Lt(a, b)

\* `x as u16` : the low 16 bits of the two's complement value
AsU16(a) ==
  LET m == BigDivRem(a.mag, 65536).r
  IN IF a.neg THEN (65536 - m) % 65536 ELSE m

(***************************************************************************)
(* chrono::Duration: a signed count of nanoseconds.                        *)
(***************************************************************************)
Duration_nanoseconds(ns) == ns
Duration_microseconds(us) == I64Mul(us, 1000)
Duration_milliseconds(ms) == I64Mul(I64Mul(ms, 1000), 1000)
Duration_seconds(s) == I64Mul(I64Mul(I64Mul(s, 1000), 1000), 1000)
Duration_minutes(m) == Duration_seconds(I64Mul(m, 60))
Duration_days(d) == Duration_seconds(I64Mul(d, 86400))

\* the whole units of a duration, truncated toward zero
num_microseconds_wide(d) == I64Div(d, 1000)
num_milliseconds(d) == I64Div(I64Div(d, 1000), 1000)
num_seconds(d) == I64Div(I64Div(I64Div(d, 1000), 1000), 1000)
num_minutes(d) == I64Div(num_seconds(d), 60)

\* Duration::num_microseconds is None when the count does not fit an i64
num_microseconds_overflows(d) ==
  LET us == num_microseconds_wide(d)
  IN BigLt(I64Max, us.mag) /\ ~(us.neg /\ us.mag = BigMulC(I64Max, 1, 1))

(***************************************************************************)
(* The Periodic Countdown Timer: frequency and tick selection.             *)
(***************************************************************************)
\* TimerClockFreq
Hertz4096 == 0
Hertz64 == 1
Hertz1 == 2
HertzSixtieth == 3

MAX_PCT_TICKS == 4095
PCT_MILLIS_PERIOD == 15
PCT_MICROS_PERIOD == 244
MAX_PCT_COUNT == MAX_PCT_TICKS
MAX_PCT_MILLIS == MAX_PCT_COUNT * PCT_MILLIS_PERIOD
\* mutant: the microseconds limit taken one microsecond per tick too far
MAX_PCT_MICROS_wide == MAX_PCT_COUNT * (PCT_MICROS_PERIOD + 1)
MAX_PCT_MICROS == MAX_PCT_COUNT * PCT_MICROS_PERIOD
\* mutant: the barrier rounded up to the next 15 ms instead of down
PCT_MILLIS_SECOND_BARRIER_rounded_up ==
  PCT_MILLIS_PERIOD * (1000 \div PCT_MILLIS_PERIOD + 1)
PCT_MILLIS_SECOND_BARRIER == PCT_MILLIS_PERIOD * (1000 \div PCT_MILLIS_PERIOD)

\* the result of a call that panicked
Panic == [panic |-> TRUE]

PctResult(ticks, freq, estimated) ==
  [panic |-> FALSE, ticks |-> ticks, freq |-> freq, estimated |-> estimated]

pct_ticks_and_rate_for_duration(duration) ==
  LET whole_minutes == num_minutes(duration)
      whole_seconds == num_seconds(duration)
      whole_milliseconds == num_milliseconds(duration)
      frac_milliseconds == I64Rem(whole_milliseconds, 1000)
      infrac_milliseconds == I64Rem(whole_milliseconds, PCT_MILLIS_PERIOD)
      whole_microseconds == num_microseconds_wide(duration)
  IN
  IF num_microseconds_overflows(duration) THEN Panic  \* .unwrap() of None
  ELSE IF I64Ge(whole_minutes, I64(MAX_PCT_COUNT)) THEN
    PctResult(MAX_PCT_TICKS, HertzSixtieth, Duration_minutes(I64(MAX_PCT_COUNT)))
  ELSE IF I64Gt(whole_seconds, I64(MAX_PCT_COUNT)) THEN
    LET ticks == whole_minutes
    IN PctResult(AsU16(ticks), HertzSixtieth, Duration_minutes(ticks))
  ELSE IF I64Gt(whole_milliseconds, I64(MAX_PCT_MILLIS))
          \/ (0 = frac_milliseconds
              /\ I64Gt(whole_milliseconds, I64(PCT_MILLIS_SECOND_BARRIER))) THEN
    LET ticks == whole_seconds
    IN PctResult(AsU16(ticks), Hertz1, Duration_seconds(ticks))
  ELSE IF I64Gt(whole_microseconds, I64(MAX_PCT_MICROS))
          \/ (0 = infrac_milliseconds
              /\ I64Ge(whole_milliseconds, I64(PCT_MILLIS_PERIOD))) THEN
    LET ticks == I64Div(whole_milliseconds, PCT_MILLIS_PERIOD)
    IN PctResult(AsU16(ticks), Hertz64,
                 Duration_milliseconds(I64Mul(ticks, PCT_MILLIS_PERIOD)))
  ELSE
    LET ticks == I64Div(whole_microseconds, PCT_MICROS_PERIOD)
    IN PctResult(AsU16(ticks), Hertz4096,
                 Duration_microseconds(I64Mul(ticks, PCT_MICROS_PERIOD)))

(***************************************************************************)
(* The register map and the bit masks.                                     *)
(***************************************************************************)
RV3028_ADDRESS == 82            \* 0xA4 >> 1
REG_SECONDS == 0
REG_WEEKDAY == 3
REG_DATE == 4
REG_MINUTES_ALARM == 7
REG_HOURS_ALARM == 8
REG_WEEKDAY_DATE_ALARM == 9
REG_TIMER_VALUE0 == 10
REG_TIMER_STATUS0 == 12
REG_STATUS == 14
REG_CONTROL1 == 15
REG_CONTROL2 == 16
REG_CLOCK_INTERRUPT_MASK == 18
REG_EVENT_CONTROL == 19
REG_COUNT_EVENTS_TS == 20
REG_UNIX_TIME_0 == 27
REG_USER_RAM1 == 31              \* 0x1F, written as a literal
REG_USER_PASSWORD_0 == 33
REG_EEPROM_EE_ADDRESS == 37
REG_EEPROM_EE_DATA == 38
REG_EEPROM_EE_CMD == 39
REG_EEPROM_PASSWORD_ENABLE == 48
REG_EEPROM_PASSWORD_0 == 49
REG_EEPROM_CLKOUT == 53
REG_EEPROM_BACKUP_CONFIG == 55
LAST_REGISTER == 55             \* REG_EEPROM_BACKUP_CONFIG, 0x37

RegAddrs == 0..LAST_REGISTER

\* the configuration EEPROM behind the registers 0x30..0x37, which mirror it.
\* The device's memory holds the cell of EEPROM address a at EepromCell(a),
\* above the addresses a bus transaction can name.
EepromAddrs == REG_EEPROM_PASSWORD_ENABLE..LAST_REGISTER

EepromCell(a) == 256 + a

DeviceAddrs == RegAddrs \cup {EepromCell(a) : a \in EepromAddrs}

\* RegControl1Bits
TimerRepeatBit == 128
WadaBit == 32
UselBit == 16
EeerdBit == 8
TimerEnableBit == 4
TimerClockFreqBits == 3

\* RegStatusBits
\* RegEventControlBits
EventHighLowBit == 64
EventFilteringTimeBits == 48
TimeStampResetBit == 4
TimeStampOverwriteBit == 2
TimeStampSourceBit == 1

TS_EVENT_SOURCE_EVI == 0
TS_EVENT_SOURCE_BSF == 1

\* RegClockIntMaskBits
ClockoutOnExtEvtBit == 8
ClockoutOnAlarmBit == 4
ClockoutOnPctBit == 2
ClockoutOnUpdateBit == 1

\* RegControl2Bits
TimeStampEnableBit == 128
ClockoutIntEnableBit == 64
TimeUpdateIntEnableBit == 32
TimerIntEnableBit == 16
AlarmIntEnableBit == 8
EventIntEnableBit == 4

\* RegEepromBackupBits
ClockoutOutputEnableBit == 128
BackupSwitchIntEnableBit == 64
TrickleChargeEnableBit == 32
BackupSwitchoverDsm == 4
TrickleChargeResistanceBits == 3

\* ClockoutRate: the rates, and the mask of the frequency selection bits
ClockoutRate == {0, 1, 2, 3, 5, 6, 7}
ClkoutFreqSelectionBits == 7

\* RegStatusBits
EepromBusyBit == 128
ClockIntFlagBit == 64
BackupSwitchFlag == 32
TimeUpdateFlag == 16
PeriodicTimerFlag == 8
AlarmFlagBit == 4
EventFlagBit == 2
PowerOnResetFlagBit == 1

ALARM_NO_WATCH_FLAG == 128

(***************************************************************************)
(* The BCD codec (u8 arithmetic: the shift drops the bits above bit 7).    *)
(***************************************************************************)
\* the tens digit in the low nibble and the ones digit in the high nibble
bin_to_bcd_swapped(value) == BitOr(((value % 10) * 16) % 256, value \div 10)

bin_to_bcd(value) == BitOr(((value \div 10) * 16) % 256, value % 10)

bcd_to_bin(value) == ((BitAnd(value, 240) \div 16) * 10 + BitAnd(value, 15)) % 256

(***************************************************************************)
(* Bus transactions.  An operation is the sequence of transactions it      *)
(* issues; a read-modify-write helper is a read into reg_val followed by   *)
(* a write computed from reg_val.                                          *)
(***************************************************************************)
Ins(k, reg, data, bits) == [k |-> k, reg |-> reg, data |-> data, bits |-> bits]

\* i2c.write(mux_addr, &[mux_chan])
MuxWrite == Ins("mux", 0, <<>>, 0)
\* i2c.write(RV3028_ADDRESS, &[reg, data...])
WriteMulti(reg, data) == Ins("write", reg, data, 0)
\* i2c.write_read(RV3028_ADDRESS, &[reg], buf) into the caller's buffer
ReadMulti(reg, n) == Ins("read", reg, <<>>, n)
\* let mut reg_val = self.read_register_raw(reg)?
ReadRegVal(reg) == Ins("read_reg_val", reg, <<>>, 1)
\* reg_val |= bits; self.write_register_raw(reg, reg_val)
WriteOr(reg, bits) == Ins("write_or", reg, <<>>, bits)
\* reg_val &= !(bits); self.write_register_raw(reg, reg_val)
WriteAndNot(reg, bits) == Ins("write_and_not", reg, <<>>, bits)
\* while self.is_eeprom_busy_raw()? {}
WaitNotBusy == Ins("wait_not_busy", REG_STATUS, <<>>, EepromBusyBit)
\* let res = self.write_register_raw(reg, data): the Result is kept
WriteRes(reg, data) == Ins("write_res", reg, <<data>>, 0)
\* res, returned as the last expression when it is an Err
ReturnRes == Ins("return_res", 0, <<>>, 0)
\* a loop whose two values never compare equal
UntilEqual_never(n) == Ins("until_equal", 0, <<>>, 0)
\* loop { ...; if val1 == val2 { return Ok(val2) } } over two reads of n bytes
UntilEqual(n) == Ins("until_equal", 0, <<>>, n)

\* a handle that never selects its channel
select_mux_channel_never == <<>>

select_mux_channel == IF mux_addr # 0 THEN <<MuxWrite>> ELSE <<>>

write_register_raw(reg, data) == <<WriteMulti(reg, <<data>>)>>

read_register_raw(reg) == <<ReadMulti(reg, 1)>>

read_multi_registers_raw(reg, n) == <<ReadMulti(reg, n)>>

read_multi_registers(reg, n) ==
  select_mux_channel \o read_multi_registers_raw(reg, n)

set_reg_bits_raw(reg, bits) == <<ReadRegVal(reg), WriteOr(reg, bits)>>

clear_reg_bits_raw(reg, bits) == <<ReadRegVal(reg), WriteAndNot(reg, bits)>>

set_or_clear_reg_bits_raw(reg, bits, set) ==
  IF set THEN set_reg_bits_raw(reg, bits) ELSE clear_reg_bits_raw(reg, bits)

set_or_clear_reg_bits(reg, bits, set) ==
  select_mux_channel \o set_or_clear_reg_bits_raw(reg, bits, set)

(***************************************************************************)
(* chrono's civil calendar: NaiveDateTime is [year, month, day, hour,      *)
(* minute, second]; Weekday counts from Monday = 0.                        *)
(***************************************************************************)
IsLeap(y) == (y % 4 = 0 /\ y % 100 # 0) \/ y % 400 = 0

DaysInMonth(y, m) ==
  IF m = 2 THEN (IF IsLeap(y) THEN 29 ELSE 28)
  ELSE IF m \in {4, 6, 9, 11} THEN 30 ELSE 31

\* days since 1970-01-01 of a date of the proleptic Gregorian calendar
days_from_civil(y, m, d) ==
  LET yy  == IF m <= 2 THEN y - 1 ELSE y
      era == yy \div 400
      yoe == yy - era * 400
      mp  == IF m > 2 THEN m - 3 ELSE m + 9
      doy == (153 * mp + 2) \div 5 + d - 1
      doe == yoe * 365 + yoe \div 4 - yoe \div 100 + doy
  IN era * 146097 + doe - 719468

civil_from_days(z) ==
  LET zz  == z + 719468
      era == zz \div 146097
      doe == zz - era * 146097
      yoe == (doe - doe \div 1460 + doe \div 36524 - doe \div 146096) \div 365
      doy == doe - (365 * yoe + yoe \div 4 - yoe \div 100)
      mp  == (5 * doy + 2) \div 153
      d   == doy - (153 * mp + 2) \div 5 + 1
      m   == IF mp < 10 THEN mp + 3 ELSE mp - 9
      y   == yoe + era * 400 + (IF m <= 2 THEN 1 ELSE 0)
  IN [year |-> y, month |-> m, day |-> d]

\* date.weekday() as u8
weekday_of(dt) == (days_from_civil(dt.year, dt.month, dt.day) + 3) % 7

\* datetime.timestamp() : i64 seconds since the epoch
timestamp(dt) ==
  LET days == days_from_civil(dt.year, dt.month, dt.day)
      sod  == dt.hour * 3600 + dt.minute * 60 + dt.second
  IN IF days >= 0
     THEN [neg |-> FALSE, mag |-> BigMulC(BigOf(days), 86400, sod)]
     ELSE [neg |-> TRUE, mag |-> BigMulC(BigOf(-days - 1), 86400, 86400 - sod)]

\* u32::MAX = 4294967295
U32Max == <<7295, 9496, 42>>

\* i64 -> u32 by try_into(): an error outside 0..=u32::MAX
FitsU32(a) == ~a.neg /\ ~BigLt(U32Max, a.mag)

\* the four bytes most significant first
to_be_bytes(x) ==
  LET d0 == BigDivRem(x, 256)
      d1 == BigDivRem(d0.q, 256)
      d2 == BigDivRem(d1.q, 256)
      d3 == BigDivRem(d2.q, 256)
  IN <<d3.r, d2.r, d1.r, d0.r>>

\* u32::to_le_bytes
to_le_bytes(x) ==
  LET d0 == BigDivRem(x, 256)
      d1 == BigDivRem(d0.q, 256)
      d2 == BigDivRem(d1.q, 256)
      d3 == BigDivRem(d2.q, 256)
  IN <<d0.r, d1.r, d2.r, d3.r>>

\* u32::from_le_bytes
from_le_bytes(b) ==
  BigMulC(BigMulC(BigMulC(BigOf(b[4]), 256, b[3]), 256, b[2]), 256, b[1])

\* NaiveDateTime::from_timestamp_opt(secs, 0) of a u32
from_timestamp_opt(x) ==
  LET dr  == BigDivRem(x, 86400)
      ymd == civil_from_days(BigToInt(dr.q))
  IN [year |-> ymd.year, month |-> ymd.month, day |-> ymd.day,
      hour |-> dr.r \div 3600, minute |-> (dr.r % 3600) \div 60,
      second |-> dr.r % 60]

(***************************************************************************)
(* Time and date.                                                          *)
(***************************************************************************)
set_unix_time_raw(unix_time) ==
  <<WriteMulti(REG_UNIX_TIME_0, to_le_bytes(unix_time))>>

\* mutant: the three time bytes in the order hours, minutes, seconds
set_time_raw_hours_first(time) ==
  <<WriteMulti(REG_SECONDS,
               <<bin_to_bcd(time.hour), bin_to_bcd(time.minute),
                 bin_to_bcd(time.second)>>)>>

set_time_raw(time) ==
  <<WriteMulti(REG_SECONDS,
               <<bin_to_bcd(time.second), bin_to_bcd(time.minute),
                 bin_to_bcd(time.hour)>>)>>

set_date_raw(date) ==
  LET year    == IF date.year > 2000 THEN (date.year - 2000) % 256 ELSE 0
      month   == (date.month % 13) % 256
      day     == (date.day % 32) % 256
      weekday == weekday_of(date) % 7
  IN <<WriteMulti(REG_WEEKDAY,
                  <<bin_to_bcd(weekday), bin_to_bcd(day), bin_to_bcd(month),
                    bin_to_bcd(year)>>)>>

\* the unwrap() of the conversion to u32 panics before any bus transaction
set_datetime_panics(datetime) == ~FitsU32(timestamp(datetime))

\* mutant: the time block written before the date block
set_datetime_time_first(datetime) ==
  select_mux_channel
    \o set_unix_time_raw(timestamp(datetime).mag)
    \o set_time_raw(datetime)
    \o set_date_raw(datetime)

set_datetime(datetime) ==
  select_mux_channel
    \o set_unix_time_raw(timestamp(datetime).mag)
    \o set_date_raw(datetime)
    \o set_time_raw(datetime)

get_unix_time == read_multi_registers(REG_UNIX_TIME_0, 4)

set_unix_time(unix_time) == select_mux_channel \o set_unix_time_raw(unix_time)

\* two reads whose values are not compared: the second is returned
get_unix_time_blocking_once == get_unix_time \o get_unix_time

get_unix_time_blocking == get_unix_time \o get_unix_time \o <<UntilEqual(4)>>

datetime == get_unix_time

get_ymd == read_multi_registers(REG_DATE, 3)

get_hms == read_multi_registers(REG_SECONDS, 3)

(***************************************************************************)
(* The alarm.  An Option is a sequence of length 0 or 1.                   *)
(***************************************************************************)
None == <<>>
Some(x) == <<x>>

\* mutant: the hours-alarm register is written before the minutes-alarm one
set_alarm_hours_first(dt, weekday, match_day, match_hour, match_minute) ==
  LET bcd_minute == bin_to_bcd(dt.minute)
      bcd_hour   == bin_to_bcd(dt.hour)
      bcd_wd_day == IF weekday # None THEN bin_to_bcd(weekday[1])
                    ELSE bin_to_bcd(dt.day)
  IN select_mux_channel
       \o clear_reg_bits_raw(REG_STATUS, AlarmFlagBit)
       \o set_or_clear_reg_bits_raw(REG_CONTROL1, WadaBit, ~(weekday # None))
       \o write_register_raw(REG_HOURS_ALARM,
            IF match_hour THEN bcd_hour
            ELSE BitOr(ALARM_NO_WATCH_FLAG, bcd_hour))
       \o write_register_raw(REG_MINUTES_ALARM,
            IF match_minute THEN bcd_minute
            ELSE BitOr(ALARM_NO_WATCH_FLAG, bcd_minute))
       \o write_register_raw(REG_WEEKDAY_DATE_ALARM,
            IF match_day THEN bcd_wd_day
            ELSE BitOr(ALARM_NO_WATCH_FLAG, bcd_wd_day))
       \o clear_reg_bits_raw(REG_STATUS, AlarmFlagBit)

\* mutant: AF is cleared before the alarm registers are written, not after
set_alarm_single_clear(dt, weekday, match_day, match_hour, match_minute) ==
  LET bcd_minute == bin_to_bcd(dt.minute)
      bcd_hour   == bin_to_bcd(dt.hour)
      bcd_wd_day == IF weekday # None THEN bin_to_bcd(weekday[1])
                    ELSE bin_to_bcd(dt.day)
  IN select_mux_channel
       \o clear_reg_bits_raw(REG_STATUS, AlarmFlagBit)
       \o set_or_clear_reg_bits_raw(REG_CONTROL1, WadaBit, ~(weekday # None))
       \o write_register_raw(REG_MINUTES_ALARM,
            IF match_minute THEN bcd_minute
            ELSE BitOr(ALARM_NO_WATCH_FLAG, bcd_minute))
       \o write_register_raw(REG_HOURS_ALARM,
            IF match_hour THEN bcd_hour
            ELSE BitOr(ALARM_NO_WATCH_FLAG, bcd_hour))
       \o write_register_raw(REG_WEEKDAY_DATE_ALARM,
            IF match_day THEN bcd_wd_day
            ELSE BitOr(ALARM_NO_WATCH_FLAG, bcd_wd_day))

set_alarm(dt, weekday, match_day, match_hour, match_minute) ==
  LET bcd_minute == bin_to_bcd(dt.minute)
      bcd_hour   == bin_to_bcd(dt.hour)
      bcd_wd_day == IF weekday # None THEN bin_to_bcd(weekday[1])
                    ELSE bin_to_bcd(dt.day)
  IN select_mux_channel
       \o clear_reg_bits_raw(REG_STATUS, AlarmFlagBit)
       \o set_or_clear_reg_bits_raw(REG_CONTROL1, WadaBit, ~(weekday # None))
       \o write_register_raw(REG_MINUTES_ALARM,
            IF match_minute THEN bcd_minute
            ELSE BitOr(ALARM_NO_WATCH_FLAG, bcd_minute))
       \o write_register_raw(REG_HOURS_ALARM,
            IF match_hour THEN bcd_hour
            ELSE BitOr(ALARM_NO_WATCH_FLAG, bcd_hour))
       \o write_register_raw(REG_WEEKDAY_DATE_ALARM,
            IF match_day THEN bcd_wd_day
            ELSE BitOr(ALARM_NO_WATCH_FLAG, bcd_wd_day))
       \o clear_reg_bits_raw(REG_STATUS, AlarmFlagBit)

get_alarm_datetime_wday_matches ==
  select_mux_channel
    \o read_register_raw(REG_WEEKDAY_DATE_ALARM)
    \o read_register_raw(REG_HOURS_ALARM)
    \o read_register_raw(REG_MINUTES_ALARM)
    \o read_register_raw(REG_CONTROL1)

Ok(v) == [panic |-> FALSE, val |-> v]

\* mutant: the fields are decoded without masking off bit 7
get_alarm_decode_unmasked(rb) ==
  LET raw_day       == rb[1]
      match_day     == 0 = BitAnd(raw_day, ALARM_NO_WATCH_FLAG)
      day           == bcd_to_bin(raw_day)
      raw_hour      == rb[2]
      match_hour    == 0 = BitAnd(raw_hour, ALARM_NO_WATCH_FLAG)
      hour          == bcd_to_bin(raw_hour)
      raw_minutes   == rb[3]
      match_minutes == 0 = BitAnd(raw_minutes, ALARM_NO_WATCH_FLAG)
      minutes       == bcd_to_bin(raw_minutes)
      wada_state    == BitAnd(rb[4], WadaBit)
      epoch         == [year |-> 1970, month |-> 1, day |-> 1, hour |-> 0,
                        minute |-> 0, second |-> 0]
  IN IF hour > 23 \/ minutes > 59 THEN Panic
     ELSE IF 0 = wada_state THEN
       IF day > 6 THEN Panic
       ELSE Ok([dt |-> [epoch EXCEPT !.hour = hour, !.minute = minutes],
                weekday |-> Some(day), match_day |-> match_day,
                match_hour |-> match_hour, match_minute |-> match_minutes])
     ELSE
       IF day < 1 \/ day > 31 THEN Panic
       ELSE Ok([dt |-> [epoch EXCEPT !.day = day, !.hour = hour,
                                     !.minute = minutes],
                weekday |-> None, match_day |-> match_day,
                match_hour |-> match_hour, match_minute |-> match_minutes])

\* what get_alarm_datetime_wday_matches makes of the four bytes it read
get_alarm_decode(rb) ==
  LET raw_day       == rb[1]
      match_day     == 0 = BitAnd(raw_day, ALARM_NO_WATCH_FLAG)
      day           == bcd_to_bin(BitAnd(127, raw_day))
      raw_hour      == rb[2]
      match_hour    == 0 = BitAnd(raw_hour, ALARM_NO_WATCH_FLAG)
      hour          == bcd_to_bin(BitAnd(127, raw_hour))
      raw_minutes   == rb[3]
      match_minutes == 0 = BitAnd(raw_minutes, ALARM_NO_WATCH_FLAG)
      minutes       == bcd_to_bin(BitAnd(127, raw_minutes))
      wada_state    == BitAnd(rb[4], WadaBit)
      epoch         == [year |-> 1970, month |-> 1, day |-> 1, hour |-> 0,
                        minute |-> 0, second |-> 0]
  IN IF hour > 23 \/ minutes > 59 THEN Panic        \* with_hour / with_minute
     ELSE IF 0 = wada_state THEN
       IF day > 6 THEN Panic                         \* Weekday::try_from
       ELSE Ok([dt |-> [epoch EXCEPT !.hour = hour, !.minute = minutes],
                weekday |-> Some(day), match_day |-> match_day,
                match_hour |-> match_hour, match_minute |-> match_minutes])
     ELSE
       IF day < 1 \/ day > 31 THEN Panic             \* with_day
       ELSE Ok([dt |-> [epoch EXCEPT !.day = day, !.hour = hour,
                                     !.minute = minutes],
                weekday |-> None, match_day |-> match_day,
                match_hour |-> match_hour, match_minute |-> match_minutes])

\* read the register; when none of `bits` is set, leave out the clear
ReadBranch(reg, bits, nskip) == Ins("read_branch", reg, <<nskip>>, bits)

\* mutant: the clear is issued whatever was read
check_and_clear_bits_always_clear(reg, bits) ==
  select_mux_channel
    \o read_register_raw(reg)
    \o clear_reg_bits_raw(reg, bits)

check_and_clear_bits(reg, bits) ==
  select_mux_channel
    \o <<ReadBranch(reg, bits, 2)>>
    \o clear_reg_bits_raw(reg, bits)

check_and_clear_alarm == check_and_clear_bits(REG_STATUS, AlarmFlagBit)

check_and_clear_power_on_reset ==
  check_and_clear_bits(REG_STATUS, PowerOnResetFlagBit)

check_and_clear_ext_event == check_and_clear_bits(REG_STATUS, EventFlagBit)

check_and_clear_backup_event == check_and_clear_bits(REG_STATUS, BackupSwitchFlag)

(***************************************************************************)
(* The countdown timer.                                                    *)
(***************************************************************************)
\* mutant: the timer is left enabled while it is reconfigured
config_pct_raw_running(value, freq, repeat) ==
  LET value_high == BitAnd((value \div 256) % 256, 15)
      value_low  == BitAnd(value, 255)
  IN set_or_clear_reg_bits_raw(REG_CONTROL1, TimerRepeatBit, repeat)
       \o set_or_clear_reg_bits_raw(REG_CONTROL1, TimerRepeatBit, repeat)
       \o clear_reg_bits_raw(REG_CONTROL1, TimerClockFreqBits)
       \o set_reg_bits_raw(REG_CONTROL1, freq)
       \o <<WriteMulti(REG_TIMER_VALUE0, <<value_low, value_high>>)>>
       \o clear_reg_bits_raw(REG_STATUS, PeriodicTimerFlag)

config_pct_raw(value, freq, repeat) ==
  LET value_high == BitAnd((value \div 256) % 256, 15)
      value_low  == BitAnd(value, 255)
  IN clear_reg_bits_raw(REG_CONTROL1, TimerEnableBit)
       \o set_or_clear_reg_bits_raw(REG_CONTROL1, TimerRepeatBit, repeat)
       \o clear_reg_bits_raw(REG_CONTROL1, TimerClockFreqBits)
       \o set_reg_bits_raw(REG_CONTROL1, freq)
       \o <<WriteMulti(REG_TIMER_VALUE0, <<value_low, value_high>>)>>
       \o clear_reg_bits_raw(REG_STATUS, PeriodicTimerFlag)

\* mutant: the timer is configured but never enabled
config_countdown_timer_never_started(duration, repeat, start) ==
  LET p == pct_ticks_and_rate_for_duration(duration)
  IN select_mux_channel
       \o config_pct_raw(p.ticks, p.freq, repeat)

config_countdown_timer(duration, repeat, start) ==
  LET p == pct_ticks_and_rate_for_duration(duration)
  IN select_mux_channel
       \o config_pct_raw(p.ticks, p.freq, repeat)
       \o (IF start THEN set_reg_bits_raw(REG_CONTROL1, TimerEnableBit)
           ELSE <<>>)

check_and_clear_countdown == check_and_clear_bits(REG_STATUS, PeriodicTimerFlag)

(***************************************************************************)
(* Interrupt, clock output and status settings.                            *)
(***************************************************************************)
toggle_backup_switchover(enable) ==
  select_mux_channel
    \o clear_reg_bits_raw(REG_STATUS, BackupSwitchFlag)
    \o set_or_clear_reg_bits_raw(REG_EEPROM_BACKUP_CONFIG, BackupSwitchoverDsm,
                                 enable)
    \o read_register_raw(REG_EEPROM_BACKUP_CONFIG)

clear_all_int_clockout_bits ==
  select_mux_channel
    \o clear_reg_bits_raw(REG_CLOCK_INTERRUPT_MASK,
                          ClockoutOnExtEvtBit + ClockoutOnAlarmBit
                            + ClockoutOnPctBit + ClockoutOnUpdateBit)

clear_all_int_out_bits ==
  select_mux_channel
    \o clear_reg_bits_raw(REG_CONTROL2,
                          TimeUpdateIntEnableBit + TimerIntEnableBit
                            + AlarmIntEnableBit + EventIntEnableBit)
    \o clear_reg_bits_raw(REG_EEPROM_BACKUP_CONFIG, BackupSwitchIntEnableBit)

clear_all_status_flags ==
  select_mux_channel
    \o clear_reg_bits_raw(REG_STATUS,
                          ClockIntFlagBit + BackupSwitchFlag + TimeUpdateFlag
                            + PeriodicTimerFlag + AlarmFlagBit + EventFlagBit
                            + PowerOnResetFlagBit)

configure_periodic_time_update(minutes, int_enable) ==
  select_mux_channel
    \o clear_reg_bits_raw(REG_CONTROL2, TimeUpdateIntEnableBit)
    \o clear_reg_bits_raw(REG_STATUS, TimeUpdateFlag)
    \o set_or_clear_reg_bits_raw(REG_CONTROL1, UselBit, minutes)
    \o set_or_clear_reg_bits_raw(REG_CONTROL2, TimeUpdateIntEnableBit,
                                 int_enable)

set_clockout_rate(rate) ==
  select_mux_channel
    \o clear_reg_bits_raw(REG_EEPROM_CLKOUT, ClkoutFreqSelectionBits)
    \o set_reg_bits_raw(REG_EEPROM_CLKOUT, rate)

config_clockout(int_enable, rate) ==
  select_mux_channel
    \o clear_reg_bits_raw(REG_EEPROM_CLKOUT, ClkoutFreqSelectionBits)
    \o set_reg_bits_raw(REG_EEPROM_CLKOUT, rate)
    \o set_or_clear_reg_bits_raw(REG_EEPROM_BACKUP_CONFIG,
                                 ClockoutOutputEnableBit, ~int_enable)
    \o set_or_clear_reg_bits_raw(REG_CONTROL2, ClockoutIntEnableBit,
                                 int_enable)

toggle_timestamp_logging(enable) ==
  select_mux_channel
    \o set_or_clear_reg_bits_raw(REG_CONTROL2, TimeStampEnableBit, enable)

reset_timestamp_log ==
  select_mux_channel \o set_reg_bits_raw(REG_EVENT_CONTROL, TimeStampResetBit)

(***************************************************************************)
(* External event detection.                                               *)
(***************************************************************************)
\* `filtering << 4` on a u8 drops the bits shifted out
config_ext_event_detection(rising, int_enable, filtering, clockout_enable) ==
  select_mux_channel
    \o clear_reg_bits_raw(REG_CONTROL2, EventIntEnableBit)
    \o clear_reg_bits_raw(REG_STATUS, EventFlagBit)
    \o set_or_clear_reg_bits_raw(REG_EVENT_CONTROL, EventHighLowBit, rising)
    \o clear_reg_bits_raw(REG_EVENT_CONTROL, EventFilteringTimeBits)
    \o (IF 0 # filtering
        THEN set_reg_bits_raw(REG_EVENT_CONTROL, (filtering * 16) % 256)
        ELSE <<>>)
    \o set_or_clear_reg_bits_raw(REG_CLOCK_INTERRUPT_MASK, ClockoutOnExtEvtBit,
                                 clockout_enable)
    \o set_or_clear_reg_bits_raw(REG_CONTROL2, EventIntEnableBit, int_enable)

(***************************************************************************)
(* Trickle charging.                                                       *)
(***************************************************************************)
check_bits_nonzero_raw(reg, bits) == read_register_raw(reg)

check_bits_nonzero(reg, bits) ==
  select_mux_channel \o check_bits_nonzero_raw(reg, bits)

\* charging is switched on before the resistance is chosen
config_trickle_charge_enable_first(enable, limit_resistance) ==
  select_mux_channel
    \o clear_reg_bits_raw(REG_EEPROM_BACKUP_CONFIG, TrickleChargeResistanceBits)
    \o (IF enable
        THEN set_reg_bits_raw(REG_EEPROM_BACKUP_CONFIG, TrickleChargeEnableBit)
               \o set_reg_bits_raw(REG_EEPROM_BACKUP_CONFIG, limit_resistance)
        ELSE clear_reg_bits_raw(REG_EEPROM_BACKUP_CONFIG,
                                TrickleChargeEnableBit))
    \o check_bits_nonzero_raw(REG_EEPROM_BACKUP_CONFIG, TrickleChargeEnableBit)

config_trickle_charge(enable, limit_resistance) ==
  select_mux_channel
    \o clear_reg_bits_raw(REG_EEPROM_BACKUP_CONFIG, TrickleChargeEnableBit)
    \o clear_reg_bits_raw(REG_EEPROM_BACKUP_CONFIG, TrickleChargeResistanceBits)
    \o (IF enable
        THEN set_reg_bits_raw(REG_EEPROM_BACKUP_CONFIG, limit_resistance)
               \o set_reg_bits_raw(REG_EEPROM_BACKUP_CONFIG,
                                   TrickleChargeEnableBit)
        ELSE <<>>)
    \o check_bits_nonzero_raw(REG_EEPROM_BACKUP_CONFIG, TrickleChargeEnableBit)

(***************************************************************************)
(* The EEPROM, the write protection password and the user RAM.             *)
(***************************************************************************)
toggle_auto_eeprom_refresh_raw(disable) ==
  set_or_clear_reg_bits_raw(REG_CONTROL1, EeerdBit, disable)

eeprom_update_all_raw ==
  toggle_auto_eeprom_refresh_raw(TRUE)
    \o <<WaitNotBusy>>
    \o write_register_raw(REG_EEPROM_EE_CMD, 0)
    \o <<WaitNotBusy>>
    \o <<WriteRes(REG_EEPROM_EE_CMD, 17)>>
    \o <<WaitNotBusy>>
    \o toggle_auto_eeprom_refresh_raw(FALSE)

\* the body of the loop of eeprom_multi_read_raw for the addresses from
\* ee_address on, n of them
RECURSIVE eeprom_read_each(_, _)
eeprom_read_each(ee_address, n) ==
  IF n = 0 THEN <<>>
  ELSE write_register_raw(REG_EEPROM_EE_ADDRESS, ee_address)
         \o <<WaitNotBusy>>
         \o write_register_raw(REG_EEPROM_EE_CMD, 0)
         \o <<WaitNotBusy>>
         \o write_register_raw(REG_EEPROM_EE_CMD, 34)
         \o <<WaitNotBusy>>
         \o read_register_raw(REG_EEPROM_EE_DATA)
         \o eeprom_read_each(ee_address + 1, n - 1)

eeprom_multi_read_raw(start_ee_address, n) ==
  toggle_auto_eeprom_refresh_raw(TRUE)
    \o <<WaitNotBusy>>
    \o eeprom_read_each(start_ee_address, n)
    \o <<WaitNotBusy>>
    \o toggle_auto_eeprom_refresh_raw(FALSE)

get_write_protect_settings ==
  select_mux_channel \o eeprom_multi_read_raw(REG_EEPROM_PASSWORD_ENABLE, 5)

enter_user_password(pass) ==
  select_mux_channel \o <<WriteMulti(REG_USER_PASSWORD_0, pass)>>

toggle_write_protect_enabled(enable) ==
  select_mux_channel
    \o write_register_raw(REG_EEPROM_PASSWORD_ENABLE,
                          IF enable THEN 255 ELSE 0)
    \o read_register_raw(REG_EEPROM_PASSWORD_ENABLE)

set_write_protect_password(pass, enable) ==
  select_mux_channel
    \o <<WriteMulti(REG_EEPROM_PASSWORD_0, pass)>>
    \o toggle_write_protect_enabled(enable)
    \o eeprom_update_all_raw

set_user_ram(data) == select_mux_channel \o <<WriteMulti(REG_USER_RAM1, data)>>

get_user_ram == select_mux_channel \o read_multi_registers_raw(REG_USER_RAM1, 2)

(***************************************************************************)
(* Time stamp logging.                                                     *)
(***************************************************************************)
\* mutant: logging is enabled before the time stamp registers are reset
config_timestamp_logging_enable_before_reset(evt_source, overwrite, start) ==
  LET enable_bsf == evt_source = TS_EVENT_SOURCE_BSF
  IN select_mux_channel
       \o clear_reg_bits_raw(REG_CONTROL2, TimeStampEnableBit)
       \o clear_reg_bits_raw(REG_STATUS, BitOr(EventFlagBit, BackupSwitchFlag))
       \o set_or_clear_reg_bits_raw(REG_EVENT_CONTROL, TimeStampSourceBit,
                                    enable_bsf)
       \o set_or_clear_reg_bits_raw(REG_EVENT_CONTROL, TimeStampOverwriteBit,
                                    overwrite)
       \o set_or_clear_reg_bits_raw(REG_CONTROL2, TimeStampEnableBit, start)
       \o set_reg_bits_raw(REG_EVENT_CONTROL, TimeStampResetBit)

config_timestamp_logging(evt_source, overwrite, start) ==
  LET enable_bsf == evt_source = TS_EVENT_SOURCE_BSF
  IN select_mux_channel
       \o clear_reg_bits_raw(REG_CONTROL2, TimeStampEnableBit)
       \o clear_reg_bits_raw(REG_STATUS, BitOr(EventFlagBit, BackupSwitchFlag))
       \o set_or_clear_reg_bits_raw(REG_EVENT_CONTROL, TimeStampSourceBit,
                                    enable_bsf)
       \o set_or_clear_reg_bits_raw(REG_EVENT_CONTROL, TimeStampOverwriteBit,
                                    overwrite)
       \o set_reg_bits_raw(REG_EVENT_CONTROL, TimeStampResetBit)
       \o set_or_clear_reg_bits_raw(REG_CONTROL2, TimeStampEnableBit, start)

get_event_count_and_datetime == read_multi_registers(REG_COUNT_EVENTS_TS, 7)

\* NaiveDate::from_ymd_opt(..).expect("YMD").and_hms_opt(..).expect("HMS")
from_ymd_hms_opt_is_some(year, month, date, hours, minutes, seconds) ==
  /\ month \in 1..12
  /\ date >= 1
  /\ date <= DaysInMonth(year, month)
  /\ hours < 24
  /\ minutes < 60
  /\ seconds < 60

\* mutant: the date is taken from the month byte and the month from the date
\* byte
get_event_count_and_datetime_decode_swapped(read_buf) ==
  LET count == read_buf[1]
      seconds == bcd_to_bin(read_buf[2])
      minutes == bcd_to_bin(read_buf[3])
      hours == bcd_to_bin(read_buf[4])
      date == bcd_to_bin(read_buf[6])
      month == bcd_to_bin(read_buf[5])
      year == bcd_to_bin(read_buf[7]) + 2000
  IN IF count > 0
     THEN IF from_ymd_hms_opt_is_some(year, month, date, hours, minutes,
                                      seconds)
          THEN Ok(<<count, Some([year |-> year, month |-> month, day |-> date,
                                 hour |-> hours, minute |-> minutes,
                                 second |-> seconds])>>)
          ELSE Panic
     ELSE Ok(<<count, None>>)

get_event_count_and_datetime_decode(read_buf) ==
  LET count == read_buf[1]
      seconds == bcd_to_bin(read_buf[2])
      minutes == bcd_to_bin(read_buf[3])
      hours == bcd_to_bin(read_buf[4])
      date == bcd_to_bin(read_buf[5])
      month == bcd_to_bin(read_buf[6])
      year == bcd_to_bin(read_buf[7]) + 2000
  IN IF count > 0
     THEN IF from_ymd_hms_opt_is_some(year, month, date, hours, minutes,
                                      seconds)
          THEN Ok(<<count, Some([year |-> year, month |-> month, day |-> date,
                                 hour |-> hours, minute |-> minutes,
                                 second |-> seconds])>>)
          ELSE Panic
     ELSE Ok(<<count, None>>)

(***************************************************************************)
(* The value an operation returns with Ok, from the bytes it read.         *)
(***************************************************************************)
\* a bool is returned as a one-element tuple, so that every value returned is
\* a function
Ret(c, rb) ==
  CASE c.op = "get_unix_time" -> Ok(from_le_bytes(rb))
    [] c.op = "get_unix_time_blocking" -> Ok(from_le_bytes(SubSeq(rb, 5, 8)))
    [] c.op = "datetime" -> Ok(from_timestamp_opt(from_le_bytes(rb)))
    [] c.op = "get_ymd" ->
         Ok(<<bcd_to_bin(rb[3]) + 2000, bcd_to_bin(rb[2]), bcd_to_bin(rb[1])>>)
    [] c.op = "get_hms" ->
         Ok(<<bcd_to_bin(rb[3]), bcd_to_bin(rb[2]), bcd_to_bin(rb[1])>>)
    [] c.op = "get_alarm_datetime_wday_matches" -> get_alarm_decode(rb)
    [] c.op = "check_and_clear_alarm" -> Ok(<<0 # BitAnd(rb[1], AlarmFlagBit)>>)
    [] c.op = "toggle_write_protect_enabled" -> Ok(<<rb[1] = 255>>)
    [] c.op = "config_trickle_charge" ->
         Ok(<<0 # BitAnd(rb[1], TrickleChargeEnableBit)>>)
    [] c.op = "get_user_ram" -> Ok(rb)
    [] c.op = "get_write_protect_settings" ->
         Ok(<<0 # rb[1], SubSeq(rb, 2, 5)>>)
    [] c.op = "check_write_protect_enabled" -> Ok(<<rb[1] = 255>>)
    [] c.op = "toggle_backup_switchover" ->
         Ok(<<0 # BitAnd(rb[1], BackupSwitchoverDsm)>>)
    [] c.op = "check_backup_event_flag" ->
         Ok(<<0 # BitAnd(rb[1], BackupSwitchFlag)>>)
    [] c.op = "check_alarm_flag" -> Ok(<<0 # BitAnd(rb[1], AlarmFlagBit)>>)
    [] c.op = "get_eeprom_backup_config" -> Ok(rb)
    [] c.op = "get_countdown_value" -> Ok(<<rb[2] * 256 + rb[1]>>)
    [] c.op = "get_event_count_and_datetime" ->
         get_event_count_and_datetime_decode(rb)
    [] c.op = "check_and_clear_countdown" ->
         Ok(<<0 # BitAnd(rb[1], PeriodicTimerFlag)>>)
    [] c.op = "check_and_clear_power_on_reset" ->
         Ok(<<0 # BitAnd(rb[1], PowerOnResetFlagBit)>>)
    [] c.op = "check_and_clear_ext_event" ->
         Ok(<<0 # BitAnd(rb[1], EventFlagBit)>>)
    [] c.op = "check_and_clear_backup_event" ->
         Ok(<<0 # BitAnd(rb[1], BackupSwitchFlag)>>)
    [] c.op = "config_countdown_timer" ->
         Ok(c.pct.estimated)
    [] OTHER -> Ok(<<>>)

(***************************************************************************)
(* The device side of the bus: registers are plain bytes, and a multi-byte *)
(* transaction walks the addresses upward from the register it names.      *)
(* The EEPROM commands move bytes between the registers and the EEPROM.    *)
(***************************************************************************)
WriteRegs(r, reg, data) ==
  [a \in DOMAIN r |->
     IF a >= reg /\ a < reg + Len(data) THEN data[a - reg + 1] ELSE r[a]]

\* a write that takes TE from 0 to 1 starts the countdown: the device loads
\* the timer value into its counter, the timer status registers
\* a device that never locks
Locked_never(r) == FALSE

\* the write-protected registers without the user RAM
WPRegs_without_user_ram ==
  (0..6) \cup (48..55)

\* while the password function is enabled (EEPWE = 255) and the user password
\* differs from the reference password, a write to a write-protected register
\* is dropped.  The update-all command makes the EEPROM busy.
PasswordAt(r, reg) == [i \in 1..4 |-> r[reg + i - 1]]

Locked(r) ==
  /\ r[REG_EEPROM_PASSWORD_ENABLE] = 255
  /\ PasswordAt(r, REG_USER_PASSWORD_0) # PasswordAt(r, REG_EEPROM_PASSWORD_0)

\* the date and time, the user RAM and the configuration EEPROM mirror
WPRegs ==
  (REG_SECONDS..(REG_SECONDS + 6))
    \cup {REG_USER_RAM1, REG_USER_RAM1 + 1}
    \cup (REG_EEPROM_PASSWORD_ENABLE..LAST_REGISTER)

\* the EEPROM after its cells have taken the bytes of the mirror registers
Stored(r) ==
  [a \in DOMAIN r |->
     IF a \in {EepromCell(e) : e \in EepromAddrs} THEN r[a - EepromCell(0)]
     ELSE r[a]]

\* command 0x22, read a single byte: EEDATA takes the EEPROM byte at EEADDR.
\* The stored settings are readable only while write protection is unlocked;
\* the user EEPROM below 0x30, which no operation writes, holds zeros.
EepromReadByte(r) ==
  [r EXCEPT ![REG_EEPROM_EE_DATA] =
     IF Locked(r) \/ r[REG_EEPROM_EE_ADDRESS] \notin EepromAddrs THEN 0
     ELSE r[EepromCell(r[REG_EEPROM_EE_ADDRESS])]]

\* a 1 written to TSR: the seven time stamp registers are reset to 0, and
\* the TSR bit itself always reads 0
TimeStampReset(r) ==
  [a \in DOMAIN r |->
     IF a >= REG_COUNT_EVENTS_TS /\ a < REG_COUNT_EVENTS_TS + 7 THEN 0
     ELSE IF a = REG_EVENT_CONTROL
     THEN BitAnd(r[a], 255 - TimeStampResetBit)
     ELSE r[a]]

DeviceWrite(r, reg, data) ==
  LET u == WriteRegs(r, reg, data)
      v == IF Locked(r)
           THEN [a \in DOMAIN r |-> IF a \in WPRegs THEN r[a] ELSE u[a]]
           ELSE u
      w == IF reg = REG_EEPROM_EE_CMD /\ data = <<17>>
           THEN [Stored(v) EXCEPT ![REG_STATUS] = BitOr(@, EepromBusyBit)]
           ELSE IF reg = REG_EEPROM_EE_CMD /\ data = <<34>>
           THEN EepromReadByte(v)
           ELSE v
      x == IF reg <= REG_EVENT_CONTROL /\ REG_EVENT_CONTROL < reg + Len(data)
              /\ 0 # BitAnd(w[REG_EVENT_CONTROL], TimeStampResetBit)
           THEN TimeStampReset(w)
           ELSE w
  IN IF 0 = BitAnd(r[REG_CONTROL1], TimerEnableBit)
        /\ 0 # BitAnd(x[REG_CONTROL1], TimerEnableBit)
     THEN [x EXCEPT ![REG_TIMER_STATUS0] = x[REG_TIMER_VALUE0],
                    ![REG_TIMER_STATUS0 + 1] = x[REG_TIMER_VALUE0 + 1]]
     ELSE x

ReadRegs(r, reg, n) == [i \in 1..n |-> r[reg + i - 1]]

\* mutant: the bit instructions work on the register as it is at the write
WriteData_fresh(ins, rv) ==
  CASE ins.k = "write" -> ins.data
    [] ins.k = "write_res" -> ins.data
    [] ins.k = "write_or" -> <<BitOr(regs[ins.reg], ins.bits)>>
    [] ins.k = "write_and_not" -> <<BitAnd(regs[ins.reg], BitNot(ins.bits))>>

\* the bytes a write instruction puts on the bus after the register address
WriteData(ins, rv) ==
  CASE ins.k = "write" -> ins.data
    [] ins.k = "write_res" -> ins.data
    [] ins.k = "write_or" -> <<BitOr(rv, ins.bits)>>
    [] ins.k = "write_and_not" -> <<BitAnd(rv, BitNot(ins.bits))>>

IsWrite(ins) == ins.k \in {"write", "write_or", "write_and_not", "write_res"}
IsRead(ins) ==
  ins.k \in {"read", "read_reg_val", "read_branch", "wait_not_busy"}

\* a transaction as the bus saw it
Txn(kind, addr, w, r, ok) ==
  [kind |-> kind, addr |-> addr, w |-> w, r |-> r, ok |-> ok]

(***************************************************************************)
(* Calling an operation and running it.                                    *)
(***************************************************************************)
MaxCalls == 2

NoCall == [op |-> "none"]

\* every register reads 0
ZeroRegs == [a \in DeviceAddrs |-> 0]

\* a handle that has not been called yet, on channel `chan`, and the device
\* behind that channel
Parked(chan, r) ==
  [mux_chan |-> chan, call |-> NoCall, prog |-> <<>>, reg_val |-> 0,
   rbuf |-> <<>>, log |-> <<>>, result |-> "idle", ret |-> Ok(<<>>),
   prev |-> [call |-> NoCall, result |-> "idle", ret |-> Ok(<<>>)],
   pre |-> r, regs |-> r]

\* the driver is the only user of the bus
NoOther == Parked(0, ZeroRegs)

InitHandle(h) ==
  /\ mux_addr = h[1]
  /\ mux_chan = h[2]
  /\ mux_sel = 0
  /\ other = NoOther
  /\ call = NoCall
  /\ prog = <<>>
  /\ reg_val = 0
  /\ rbuf = <<>>
  /\ log = <<>>
  /\ result = "idle"
  /\ ret = Ok(<<>>)
  /\ prev = [call |-> NoCall, result |-> "idle", ret |-> Ok(<<>>)]
  /\ ncalls = 0

\* new(i2c) and new_with_mux(i2c, 0x70, channel 0)
Handles == {<<0, 0>>, <<112, 1>>}

StartWithin(max, c, program, panics) ==
  /\ result \in {"idle", "ok", "err"}
  /\ ncalls < max
  /\ call' = c
  /\ prev' = [call |-> call, result |-> result, ret |-> ret]
  /\ pre' = regs
  /\ ncalls' = ncalls + 1
  /\ rbuf' = <<>>
  /\ log' = <<>>
  /\ reg_val' = 0
  /\ IF panics
     THEN prog' = <<>> /\ result' = "panic" /\ ret' = Panic
     ELSE prog' = program /\ result' = "running" /\ ret' = Ok(<<>>)
  /\ UNCHANGED <<regs, mux_addr, mux_chan, mux_sel, other>>

Start(c, program, panics) == StartWithin(MaxCalls, c, program, panics)

\* a configuring operation is the first call made on the device under test
StartFirst(c, program, panics) == ncalls = 0 /\ Start(c, program, panics)

\* a call made over and over by a caller that polls: the count of calls stops
\* at MaxCalls, the calls do not
StartPoll(c, program) ==
  /\ result \in {"idle", "ok", "err"}
  /\ ncalls > 0
  /\ call' = c
  /\ prev' = [call |-> call, result |-> result, ret |-> ret]
  /\ pre' = regs
  /\ ncalls' = IF ncalls < MaxCalls THEN ncalls + 1 ELSE ncalls
  /\ rbuf' = <<>>
  /\ log' = <<>>
  /\ reg_val' = 0
  /\ prog' = program
  /\ result' = "running"
  /\ ret' = Ok(<<>>)
  /\ UNCHANGED <<regs, mux_addr, mux_chan, mux_sel, other>>

\* the end of a transaction that succeeded: the `?` passes, and after the
\* last transaction the operation returns
Complete(rest, rb) ==
  IF rest = <<>> \/ (Head(rest).k = "until_equal"
                       /\ SubSeq(rb, 1, Head(rest).bits)
                            = SubSeq(rb, Head(rest).bits + 1, Len(rb)))
  THEN LET r == Ret(call, rb)
       IN /\ prog' = <<>>
          /\ rbuf' = rb
          /\ result' = (IF r.panic THEN "panic" ELSE "ok")
          /\ ret' = r
  ELSE IF Head(rest).k = "until_equal"
  THEN prog' = get_unix_time_blocking /\ rbuf' = <<>> /\ UNCHANGED <<result, ret>>
  ELSE IF Head(rest).k = "return_res"
  THEN prog' = <<>> /\ rbuf' = rb /\ result' = "err" /\ UNCHANGED ret
  ELSE prog' = rest /\ rbuf' = rb /\ UNCHANGED <<result, ret>>

\* the busy polls of the loop the operation is in: the status reads at the
\* end of the log
RECURSIVE BusyPolls(_)
BusyPolls(l) ==
  IF l = <<>> THEN 0
  ELSE LET t == l[Len(l)]
       IN IF t.kind = "write_read" /\ t.w = <<REG_STATUS>> /\ t.ok
          THEN 1 + BusyPolls(SubSeq(l, 1, Len(l) - 1))
          ELSE 0

MaxBusyPolls == 2

MuxSelectOk ==
  /\ result = "running"
  /\ Head(prog).k = "mux"
  /\ log' = Append(log, Txn("write", mux_addr, <<mux_chan>>, 0, TRUE))
  /\ mux_sel' = mux_chan
  /\ Complete(Tail(prog), rbuf)
  /\ UNCHANGED <<regs, mux_addr, mux_chan, other, call, reg_val, prev, pre,
                 ncalls>>

\* the transaction reaches the device behind the handle's own channel: there
\* is no mux, or the mux received this handle's channel byte last
OnOwnChannel == mux_addr = 0 \/ mux_sel = mux_chan

\* a device with the RTC's address is behind the channel the mux has selected:
\* the handle's own, or the one of the handle that waits.  On any other
\* channel nothing acknowledges the address and the transaction fails.
Answers == OnOwnChannel \/ mux_sel = other.mux_chan

\* mutant: the bus delivers every transaction to the issuing handle's device
BusWriteOk_own_device ==
  /\ result = "running"
  /\ IsWrite(Head(prog))
  /\ LET ins  == Head(prog)
         data == WriteData(ins, reg_val)
     IN /\ regs' = DeviceWrite(regs, ins.reg, data)
        /\ log' = Append(log, Txn("write", RV3028_ADDRESS,
                                  <<ins.reg>> \o data, 0, TRUE))
  /\ Complete(Tail(prog), rbuf)
  /\ UNCHANGED <<mux_addr, mux_chan, mux_sel, other, call, reg_val, prev, pre,
                 ncalls>>

BusWriteOk ==
  /\ result = "running"
  /\ IsWrite(Head(prog))
  /\ Answers
  /\ LET ins  == Head(prog)
         data == WriteData(ins, reg_val)
     IN /\ IF OnOwnChannel
           THEN regs' = DeviceWrite(regs, ins.reg, data) /\ other' = other
           ELSE /\ regs' = regs
                /\ other' = [other EXCEPT
                               !.regs = DeviceWrite(@, ins.reg, data)]
        /\ log' = Append(log, Txn("write", RV3028_ADDRESS,
                                  <<ins.reg>> \o data, 0, TRUE))
  /\ Complete(Tail(prog), rbuf)
  /\ UNCHANGED <<mux_addr, mux_chan, mux_sel, call, reg_val, prev, pre, ncalls>>

BusReadOk ==
  /\ result = "running"
  /\ IsRead(Head(prog))
  /\ Answers
  /\ LET ins  == Head(prog)
         got  == ReadRegs(IF OnOwnChannel THEN regs ELSE other.regs, ins.reg,
                          IF ins.k = "read" THEN ins.bits ELSE 1)
         busy == ins.k = "wait_not_busy" /\ 0 # BitAnd(got[1], ins.bits)
         rest == IF ins.k = "read_branch" /\ 0 = BitAnd(got[1], ins.bits)
                 THEN SubSeq(prog, 2 + ins.data[1], Len(prog))
                 ELSE IF busy THEN prog
                 ELSE Tail(prog)
     IN /\ busy => BusyPolls(log) < MaxBusyPolls
        /\ log' = Append(log, Txn("write_read", RV3028_ADDRESS, <<ins.reg>>,
                                  Len(got), TRUE))
        /\ reg_val' = IF ins.k = "read_reg_val" THEN got[1] ELSE reg_val
        /\ Complete(rest, IF ins.k \in {"read_reg_val", "wait_not_busy"}
                          THEN rbuf ELSE rbuf \o got)
  /\ UNCHANGED <<regs, mux_addr, mux_chan, mux_sel, other, call, prev, pre,
                 ncalls>>

\* mutant: the error of a failed transaction is dropped and the operation
\* goes on to its next transaction
BusError_ignored ==
  /\ result = "running"
  /\ prog # <<>>
  /\ LET ins == Head(prog)
     IN \/ /\ ~IsWrite(ins)
           /\ log' = Append(log, Txn("write", mux_addr, <<>>, 0, FALSE))
           /\ regs' = regs
        \/ /\ IsWrite(ins)
           /\ LET data == WriteData(ins, reg_val)
              IN /\ log' = Append(log, Txn("write", RV3028_ADDRESS,
                                           <<ins.reg>> \o data, 0, FALSE))
                 /\ regs' = regs
  /\ prog' = Tail(prog)
  /\ result' = IF Tail(prog) = <<>> THEN "err" ELSE "running"
  /\ UNCHANGED <<mux_addr, mux_chan, mux_sel, other, call, reg_val, rbuf, ret,
                 prev, pre, ncalls>>

\* the transaction fails: the operation returns the error at once, and the
\* device has stored nothing of a write that failed
BusError ==
  /\ result = "running"
  /\ prog # <<>>
  /\ Head(prog).k # "write_res"
  /\ LET ins == Head(prog)
     IN \/ /\ ins.k = "mux"
           /\ log' = Append(log, Txn("write", mux_addr, <<mux_chan>>, 0, FALSE))
           /\ regs' = regs
        \/ /\ IsRead(ins)
           /\ log' = Append(log, Txn("write_read", RV3028_ADDRESS,
                                     <<ins.reg>>, 0, FALSE))
           /\ regs' = regs
        \/ /\ IsWrite(ins)
           /\ LET data == WriteData(ins, reg_val)
              IN /\ log' = Append(log, Txn("write", RV3028_ADDRESS,
                                           <<ins.reg>> \o data, 0, FALSE))
                 /\ regs' = regs
  /\ prog' = <<>>
  /\ result' = "err"
  /\ UNCHANGED <<mux_addr, mux_chan, mux_sel, other, call, reg_val, rbuf, ret,
                 prev, pre, ncalls>>

Bus == MuxSelectOk \/ BusWriteOk \/ BusReadOk \/ BusError

\* the write whose Result is kept in `res` fails: the operation goes on, and
\* returns the error after its last transaction
BusErrorKept ==
  /\ result = "running"
  /\ prog # <<>>
  /\ Head(prog).k = "write_res"
  /\ log' = Append(log, Txn("write", RV3028_ADDRESS,
                            <<Head(prog).reg>> \o Head(prog).data, 0, FALSE))
  /\ Complete(Tail(prog) \o <<ReturnRes>>, rbuf)
  /\ UNCHANGED <<regs, mux_addr, mux_chan, mux_sel, other, call, reg_val,
                 prev, pre, ncalls>>

\* the EEPROM finishes its command
DeviceEepromDone ==
  /\ 0 # BitAnd(regs[REG_STATUS], EepromBusyBit)
  /\ regs' = [regs EXCEPT ![REG_STATUS] = BitAnd(@, 255 - EepromBusyBit)]
  /\ UNCHANGED <<mux_addr, mux_chan, mux_sel, other, call, prog, reg_val,
                 rbuf, log, result, ret, prev, pre, ncalls>>

(***************************************************************************)
(* What the device does on its own while an operation is under way.        *)
(***************************************************************************)
\* the alarm registers match the time while set_alarm is part-way through
\* writing them: the device raises AF
DeviceAlarmFires ==
  /\ result = "running"
  /\ call.op = "set_alarm"
  /\ 0 = BitAnd(regs[REG_STATUS], AlarmFlagBit)
  /\ regs' = [regs EXCEPT ![REG_STATUS] = BitOr(@, AlarmFlagBit)]
  /\ UNCHANGED <<mux_addr, mux_chan, mux_sel, other, call, prog, reg_val,
                 rbuf, log, result, ret, prev, pre, ncalls>>

\* a running countdown reaches zero: the device raises TF
DeviceTimerExpires ==
  /\ result = "running"
  /\ 0 # BitAnd(regs[REG_CONTROL1], TimerEnableBit)
  /\ 0 = BitAnd(regs[REG_STATUS], PeriodicTimerFlag)
  /\ regs' = [regs EXCEPT ![REG_STATUS] = BitOr(@, PeriodicTimerFlag)]
  /\ UNCHANGED <<mux_addr, mux_chan, mux_sel, other, call, prog, reg_val,
                 rbuf, log, result, ret, prev, pre, ncalls>>

TimerCounter(r) == r[REG_TIMER_STATUS0] + 256 * r[REG_TIMER_STATUS0 + 1]

\* one period of the selected frequency passes while the timer is enabled
\* and its counter is not zero: the counter goes down by one; on reaching
\* zero the device raises TF and, in repeat mode, reloads the timer value,
\* while in one-shot mode the counter stays at zero
DeviceTimerTick ==
  /\ 0 # BitAnd(regs[REG_CONTROL1], TimerEnableBit)
  /\ TimerCounter(regs) > 0
  /\ LET c == TimerCounter(regs) - 1
         n == IF c = 0 /\ 0 # BitAnd(regs[REG_CONTROL1], TimerRepeatBit)
              THEN regs[REG_TIMER_VALUE0] + 256 * regs[REG_TIMER_VALUE0 + 1]
              ELSE c
     IN regs' = [regs EXCEPT
                   ![REG_TIMER_STATUS0] = n % 256,
                   ![REG_TIMER_STATUS0 + 1] = n \div 256,
                   ![REG_STATUS] = IF c = 0 THEN BitOr(@, PeriodicTimerFlag)
                                   ELSE @]
  /\ UNCHANGED <<mux_addr, mux_chan, mux_sel, other, call, prog, reg_val,
                 rbuf, log, result, ret, prev, pre, ncalls>>


(***************************************************************************)
(* Setting and reading the date and time.                                  *)
(***************************************************************************)
\* the registers after the plain writes of a program have all succeeded
RECURSIVE ApplyWrites(_, _)
ApplyWrites(r, p) ==
  IF p = <<>> THEN r
  ELSE ApplyWrites(IF Head(p).k = "write"
                   THEN WriteRegs(r, Head(p).reg, Head(p).data) ELSE r,
                   Tail(p))

DT(y, mo, d, h, mi, sec) ==
  [year |-> y, month |-> mo, day |-> d, hour |-> h, minute |-> mi,
   second |-> sec]

Dates ==
  {ymd \in {2000, 2024, 2099} \X {1, 2, 12} \X {1, 29, 31} :
     ymd[3] <= DaysInMonth(ymd[1], ymd[2])}

Times == {<<0, 0, 0>>, <<9, 10, 19>>, <<12, 34, 56>>, <<23, 59, 59>>}

DateTimes ==
  {DT(c[1][1], c[1][2], c[1][3], c[2][1], c[2][2], c[2][3]) : c \in Dates \X Times}

\* the registers a successful set_datetime(dt) leaves, block by block
Encoded(dt) ==
  ApplyWrites(ZeroRegs, set_unix_time_raw(timestamp(dt).mag) \o set_date_raw(dt)
                          \o set_time_raw(dt))

\* the clock registers as they are after power-on, and as an earlier
\* set_datetime(2021-03-01T12:00:00) left them
ClockInitRegs ==
  { [ZeroRegs EXCEPT ![REG_DATE] = 1, ![REG_DATE + 1] = 1],
    Encoded(DT(2021, 3, 1, 12, 0, 0)) }

Init_Clock ==
  /\ regs \in ClockInitRegs
  /\ pre = regs
  /\ \E h \in Handles : InitHandle(h)

Call_set_datetime ==
  \E dt \in DateTimes :
    StartFirst([op |-> "set_datetime", dt |-> dt], set_datetime(dt),
               set_datetime_panics(dt))

Call_get_unix_time == Start([op |-> "get_unix_time"], get_unix_time, FALSE)

Call_datetime == Start([op |-> "datetime"], datetime, FALSE)

Call_get_ymd == Start([op |-> "get_ymd"], get_ymd, FALSE)

Call_get_hms == Start([op |-> "get_hms"], get_hms, FALSE)

Next_Clock ==
  \/ Call_set_datetime
  \/ Call_get_unix_time
  \/ Call_datetime
  \/ Call_get_ymd
  \/ Call_get_hms
  \/ Bus

SpecClock == Init_Clock /\ [][Next_Clock]_vars

\* the transactions the operation addressed to the RTC, in order
DeviceTxns(l) == SelectSeq(l, LAMBDA t : t.addr = RV3028_ADDRESS)
DeviceWrites(l) ==
  SelectSeq(l, LAMBDA t : t.addr = RV3028_ADDRESS /\ t.kind = "write")

UnixBlock == REG_UNIX_TIME_0..(REG_UNIX_TIME_0 + 3)
DateBlock == REG_WEEKDAY..(REG_WEEKDAY + 3)
TimeBlock == REG_SECONDS..(REG_SECONDS + 2)

SameOn(block, r1, r2) == \A a \in block : r1[a] = r2[a]

\* C1: set_datetime writes the Unix counter (4 bytes from 0x1B), then the
\* date block (weekday, day, month, year from 0x03), then the time block
\* (seconds, minutes, hours from 0x00), and nothing is written to the device
\* after the write that holds the seconds register.
C1_SetDatetimeWriteOrder ==
  call.op = "set_datetime" =>
    LET w == DeviceWrites(log)
        dt == call.dt
        expected ==
          << <<27>> \o to_le_bytes(timestamp(dt).mag),
             <<3, bin_to_bcd(weekday_of(dt)), bin_to_bcd(dt.day),
               bin_to_bcd(dt.month), bin_to_bcd(dt.year - 2000)>>,
             <<0, bin_to_bcd(dt.second), bin_to_bcd(dt.minute),
               bin_to_bcd(dt.hour)>> >>
    IN /\ Len(w) <= 3
       /\ DeviceTxns(log) = w
       /\ \A i \in 1..Len(w) : w[i].w = expected[i]
       /\ result = "ok" => Len(w) = 3 /\ log[Len(log)] = w[3]
       /\ Len(w) = 3 => prog = <<>>

C1_Witness ==
  /\ call.op = "set_datetime"
  /\ result = "ok"
  /\ mux_addr # 0
  /\ Len(log) = 4
  /\ log[4].w[1] = REG_SECONDS

\* C2: after a successful set_datetime(dt), dt in 2000..2099, the Unix counter
\* reads dt's timestamp, datetime() reads dt, get_ymd reads dt's (year,
\* month, day) and get_hms reads dt's (hour, minute, second).
C2_SetDatetimeRoundTrip ==
  (result = "ok" /\ prev.call.op = "set_datetime" /\ prev.result = "ok") =>
    LET dt == prev.call.dt
    IN /\ call.op = "get_unix_time" => ret.val = timestamp(dt).mag
       /\ call.op = "datetime" => ret.val = dt
       /\ call.op = "get_ymd" => ret.val = <<dt.year, dt.month, dt.day>>
       /\ call.op = "get_hms" => ret.val = <<dt.hour, dt.minute, dt.second>>

C2_Witness ==
  /\ result = "ok"
  /\ call.op = "get_ymd"
  /\ prev.call.op = "set_datetime"
  /\ prev.result = "ok"
  /\ prev.call.dt = DT(2099, 12, 31, 23, 59, 59)
  /\ ret.val = <<2099, 12, 31>>

\* C3 as claimed: whenever set_datetime returns, with Ok or with a bus error,
\* the Unix counter, the date block and the time block either all encode dt
\* or all hold what they held before the call.
C3_AllOrNothing ==
  (call.op = "set_datetime" /\ result \in {"ok", "err"}) =>
    LET all == UnixBlock \cup DateBlock \cup TimeBlock
    IN SameOn(all, regs, Encoded(call.dt)) \/ SameOn(all, regs, pre)

\* C3 as amended: with Ok all three blocks encode dt; with a bus error, the
\* blocks whose writes succeeded before the failing transaction encode dt and
\* the blocks whose writes were never issued hold what they held before.
C3_SetDatetimeStepwise ==
  (call.op = "set_datetime" /\ result \in {"ok", "err"}) =>
    LET w == DeviceWrites(log)
        done == Cardinality({i \in 1..Len(w) : w[i].ok})
        blocks == <<UnixBlock, DateBlock, TimeBlock>>
    IN /\ (result = "ok") <=> (done = 3)
       /\ \A i \in 1..3 :
            /\ i <= done => SameOn(blocks[i], regs, Encoded(call.dt))
            /\ i > Len(w) => SameOn(blocks[i], regs, pre)

C3_Witness ==
  /\ call.op = "set_datetime"
  /\ result = "err"
  /\ Len(DeviceWrites(log)) = 2
  /\ SameOn(UnixBlock, regs, Encoded(call.dt))
  /\ ~SameOn(UnixBlock, regs, pre)
  /\ SameOn(DateBlock \cup TimeBlock, regs, pre)
  /\ ~SameOn(TimeBlock, regs, Encoded(call.dt))

(***************************************************************************)
(* Setting and reading the alarm.                                          *)
(***************************************************************************)
\* the alarm of set_alarm: day of month, hour, minute, and the weekday if any
AlarmFields ==
  {<<d, 7, 30, None>> : d \in 1..31}
    \cup {<<15, h, 30, None>> : h \in 0..23}
    \cup {<<15, 7, mi, None>> : mi \in 0..59}
    \cup {<<15, 7, 30, Some(wd)>> : wd \in 0..6}

AlarmCorners ==
  {<<1, 0, 0, None>>, <<31, 23, 59, None>>, <<1, 0, 0, Some(0)>>,
   <<31, 23, 59, Some(6)>>}

AlarmCall(f, md, mh, mm) ==
  [op |-> "set_alarm", dt |-> DT(2024, 1, f[1], f[2], f[3], 0),
   weekday |-> f[4], match_day |-> md, match_hour |-> mh, match_minute |-> mm]

AlarmCalls ==
  {AlarmCall(f, b, b, b) : f \in AlarmFields, b \in BOOLEAN}
    \cup {AlarmCall(f, md, mh, mm) :
            f \in AlarmCorners, md \in BOOLEAN, mh \in BOOLEAN, mm \in BOOLEAN}

\* status and Control 1 before the call, over alarm registers that are zero
\* and that hold an earlier alarm
AlarmInitRegs ==
  {[ZeroRegs EXCEPT ![REG_STATUS] = st, ![REG_CONTROL1] = c[1],
                    ![REG_MINUTES_ALARM] = c[2], ![REG_HOURS_ALARM] = c[3],
                    ![REG_WEEKDAY_DATE_ALARM] = c[4]] :
     st \in {0, AlarmFlagBit, 255},
     c \in {<<0, 0, 0, 0>>, <<255, 217, 35, 177>>}}

Init_Alarm ==
  /\ regs \in AlarmInitRegs
  /\ pre = regs
  /\ \E h \in Handles : InitHandle(h)

Call_set_alarm ==
  \E c \in AlarmCalls :
    StartFirst(c, set_alarm(c.dt, c.weekday, c.match_day, c.match_hour,
                            c.match_minute), FALSE)

Call_get_alarm_datetime_wday_matches ==
  Start([op |-> "get_alarm_datetime_wday_matches"],
        get_alarm_datetime_wday_matches, FALSE)

Call_check_and_clear_alarm ==
  Start([op |-> "check_and_clear_alarm"], check_and_clear_alarm, FALSE)

Next_Alarm ==
  \/ Call_set_alarm
  \/ Call_get_alarm_datetime_wday_matches
  \/ Call_check_and_clear_alarm
  \/ Bus
  \/ DeviceAlarmFires

SpecAlarm == Init_Alarm /\ [][Next_Alarm]_vars

\* C4: set_alarm writes, in this order: the status register with AF cleared;
\* Control 1 with WADA cleared iff a weekday was supplied; the minutes-alarm
\* register; the hours-alarm register; the weekday/date-alarm register; the
\* status register with AF cleared again, which is the last write.  Each
\* alarm register holds the BCD field, bit 7 set iff its match flag is false.
C4_SetAlarmWriteOrder ==
  call.op = "set_alarm" =>
    LET w == DeviceWrites(log)
        dt == call.dt
        no_af == BitAnd(pre[REG_STATUS], 255 - AlarmFlagBit)
        field(v, match) == IF match THEN bin_to_bcd(v) ELSE 128 + bin_to_bcd(v)
        expected ==
          << <<REG_STATUS, no_af>>,
             <<REG_CONTROL1,
               IF call.weekday # None
               THEN BitAnd(pre[REG_CONTROL1], 255 - WadaBit)
               ELSE BitOr(pre[REG_CONTROL1], WadaBit)>>,
             <<7, field(dt.minute, call.match_minute)>>,
             <<8, field(dt.hour, call.match_hour)>>,
             <<9, IF call.weekday # None
                  THEN field(call.weekday[1], call.match_day)
                  ELSE field(dt.day, call.match_day)>>,
             <<REG_STATUS, no_af>> >>
    IN /\ Len(w) <= 6
       /\ \A i \in 1..Len(w) : w[i].w = expected[i]
       /\ result = "ok" =>
            /\ Len(w) = 6
            /\ log[Len(log)] = w[6]
            /\ \A i \in 3..5 : regs[expected[i][1]] = expected[i][2]
       /\ Len(w) = 6 => prog = <<>>

C4_Witness ==
  /\ call.op = "set_alarm"
  /\ result = "ok"
  /\ call.weekday = Some(6)
  /\ call.match_day /\ ~call.match_hour /\ ~call.match_minute
  /\ regs[REG_MINUTES_ALARM] = 217
  /\ regs[REG_HOURS_ALARM] = 163
  /\ regs[REG_WEEKDAY_DATE_ALARM] = 6
  /\ 0 = BitAnd(regs[REG_CONTROL1], WadaBit)
  /\ 0 # BitAnd(pre[REG_CONTROL1], WadaBit)

\* C5: get_alarm_datetime_wday_matches called after a successful set_alarm
\* returns the three match flags, the hour and the minute that were set, and
\* Some(weekday) when a weekday was supplied, else the day of the month with
\* weekday None.
C5_AlarmRoundTrip ==
  (call.op = "get_alarm_datetime_wday_matches" /\ result \in {"ok", "panic"}
     /\ prev.call.op = "set_alarm" /\ prev.result = "ok") =>
    LET a == prev.call
    IN /\ result = "ok"
       /\ ret.val.match_day = a.match_day
       /\ ret.val.match_hour = a.match_hour
       /\ ret.val.match_minute = a.match_minute
       /\ ret.val.dt.hour = a.dt.hour
       /\ ret.val.dt.minute = a.dt.minute
       /\ ret.val.weekday = a.weekday
       /\ a.weekday = None => ret.val.dt.day = a.dt.day

C5_Witness ==
  /\ call.op = "get_alarm_datetime_wday_matches"
  /\ result = "ok"
  /\ prev.call.op = "set_alarm"
  /\ prev.result = "ok"
  /\ prev.call.weekday = None
  /\ ~prev.call.match_day
  /\ ret.val.weekday = None
  /\ ret.val.dt.day = 31
  /\ ret.val.dt.hour = 23
  /\ ret.val.dt.minute = 59
  /\ ~ret.val.match_day /\ ret.val.match_hour /\ ~ret.val.match_minute

\* C6: when set_alarm returns Ok the alarm flag AF is 0, whatever the status
\* and alarm registers held before and even if the alarm fired while it was
\* being set, and a check_and_clear_alarm called next returns false.
C6_AlarmFlagClearAfterSet ==
  /\ (call.op = "set_alarm" /\ result = "ok") =>
       0 = BitAnd(regs[REG_STATUS], AlarmFlagBit)
  /\ (call.op = "check_and_clear_alarm" /\ result = "ok"
        /\ prev.call.op = "set_alarm" /\ prev.result = "ok") =>
       ret.val = <<FALSE>>

C6_Witness ==
  /\ call.op = "check_and_clear_alarm"
  /\ result = "ok"
  /\ prev.call.op = "set_alarm"
  /\ prev.result = "ok"
  /\ ret.val = <<FALSE>>
  /\ regs[REG_STATUS] = 255 - AlarmFlagBit
  /\ Len(DeviceTxns(log)) = 1

(***************************************************************************)
(* Configuring and polling the countdown timer.                            *)
(***************************************************************************)
\* requested durations: one for each frequency, the largest and the smallest
\* tick counts, a negative one, one beyond 4095 minutes, and one whose
\* microseconds do not fit an i64
TimerDurations ==
  { Duration_seconds(I64(3)),
    Duration_seconds(I64(4095)),
    Duration_minutes(I64(100)),
    Duration_minutes(I64(5000)),
    Duration_milliseconds(I64(1500)),
    Duration_microseconds(I64(73200)),
    Duration_microseconds(I64(0)),
    Duration_microseconds(I64(100)),
    Duration_microseconds(I64(-244)),
    Duration_days(I64(106751992)) }

\* any Control 1, over a device whose status flags are all clear and whose
\* timer value is zero, and over one whose flags are all set after an
\* earlier countdown from 4095
TimerInitRegs ==
  {[ZeroRegs EXCEPT ![REG_CONTROL1] = c1, ![REG_STATUS] = v[1],
                    ![REG_TIMER_VALUE0] = v[2], ![REG_TIMER_VALUE0 + 1] = v[3]] :
     c1 \in 0..255, v \in {<<0, 0, 0>>, <<255, 255, 15>>}}

Init_Timer ==
  /\ regs \in TimerInitRegs
  /\ pre = regs
  /\ \E h \in Handles : InitHandle(h)

config_countdown_timer_panics(duration) ==
  pct_ticks_and_rate_for_duration(duration).panic

Call_config_countdown_timer ==
  \E d \in TimerDurations, repeat \in BOOLEAN, start \in BOOLEAN :
    StartFirst([op |-> "config_countdown_timer", duration |-> d,
                repeat |-> repeat, start |-> start,
                pct |-> pct_ticks_and_rate_for_duration(d)],
               config_countdown_timer(d, repeat, start),
               config_countdown_timer_panics(d))

Call_check_and_clear_countdown ==
  Start([op |-> "check_and_clear_countdown"], check_and_clear_countdown, FALSE)

Next_Timer ==
  \/ Call_config_countdown_timer
  \/ Call_check_and_clear_countdown
  \/ Bus
  \/ DeviceTimerExpires

SpecTimer == Init_Timer /\ [][Next_Timer]_vars

TimerEnabled(r) == 0 # BitAnd(r[REG_CONTROL1], TimerEnableBit)

\* C7: in config_countdown_timer the first device write is Control 1 with TE
\* cleared; once it has succeeded TE is 0 in every device state while the
\* repeat bit, the frequency bits, the timer value and TF are written; TE is
\* set only by the last write, the seventh, which is issued only when start
\* is true.
C7_TimerStoppedWhileConfigured ==
  call.op = "config_countdown_timer" =>
    LET w == DeviceWrites(log)
        target == <<REG_CONTROL1, REG_CONTROL1, REG_CONTROL1, REG_CONTROL1,
                    REG_TIMER_VALUE0, REG_STATUS, REG_CONTROL1>>
    IN /\ Len(w) <= 7
       /\ \A i \in 1..Len(w) : w[i].w[1] = target[i]
       /\ Len(w) >= 1 =>
            w[1].w = <<REG_CONTROL1,
                       BitAnd(pre[REG_CONTROL1], 255 - TimerEnableBit)>>
       /\ \A i \in 2..Len(w) :
            (i < 7 /\ w[i].w[1] = REG_CONTROL1) =>
              0 = BitAnd(w[i].w[2], TimerEnableBit)
       /\ Len(w) = 7 =>
            call.start /\ prog = <<>> /\ log[Len(log)] = w[7]
              /\ 0 # BitAnd(w[7].w[2], TimerEnableBit)
       /\ (Len(w) >= 1 /\ w[1].ok /\ TimerEnabled(regs)) =>
            Len(w) = 7 /\ result = "ok"
       /\ result = "ok" =>
            Len(w) = (IF call.start THEN 7 ELSE 6)
              /\ (TimerEnabled(regs) <=> call.start)

C7_Witness ==
  /\ call.op = "config_countdown_timer"
  /\ result = "running"
  /\ call.start
  /\ TimerEnabled(pre)
  /\ ~TimerEnabled(regs)
  /\ Len(DeviceWrites(log)) = 6

\* C8 as claimed: after a successful config_countdown_timer, from any prior
\* Control 1, the frequency bits are the code of the selected frequency, the
\* repeat bit is repeat, TE is start, the timer-value registers hold the
\* selected tick count (low byte at 0x0A, high nibble at 0x0B), TF is 0 and
\* WADA, USEL and EERD are as they were.
C8_TimerPostState ==
  (call.op = "config_countdown_timer" /\ result = "ok") =>
    LET p == pct_ticks_and_rate_for_duration(call.duration)
        c1 == regs[REG_CONTROL1]
        kept == WadaBit + UselBit + EeerdBit
    IN /\ BitAnd(c1, TimerClockFreqBits) = p.freq
       /\ (0 # BitAnd(c1, TimerRepeatBit)) <=> call.repeat
       /\ (0 # BitAnd(c1, TimerEnableBit)) <=> call.start
       /\ regs[10] + 256 * regs[11] = p.ticks
       /\ regs[11] <= 15
       /\ 0 = BitAnd(regs[REG_STATUS], PeriodicTimerFlag)
       /\ BitAnd(c1, kept) = BitAnd(pre[REG_CONTROL1], kept)

\* C8, the failing case: the call returns Ok for a negative duration, the
\* selected tick count is above 4095 and the registers hold its low 12 bits
C8_Witness ==
  /\ call.op = "config_countdown_timer"
  /\ result = "ok"
  /\ call.duration.neg
  /\ pct_ticks_and_rate_for_duration(call.duration).ticks = 65535
  /\ regs[10] = 255
  /\ regs[11] = 15

\* C8 where the selected tick count fits the 12 bits of the timer: every
\* part of the claim holds
C8_TimerPostStateInRange ==
  (call.op = "config_countdown_timer" /\ result = "ok"
     /\ pct_ticks_and_rate_for_duration(call.duration).ticks <= MAX_PCT_TICKS)
    => C8_TimerPostState

(***************************************************************************)
(* pct_ticks_and_rate_for_duration on its own.                             *)
(***************************************************************************)
MaxSecs == 4100
MaxMins == 4100
MaxTicks == 4100
MaxMicros == 2100
MaxMillis == 2100

\* requests as the callers build them: Duration::seconds(n), ::minutes(n),
\* ::days(n)
PctRequest(unit, n) == [unit |-> unit, n |-> n]

\* Duration::microseconds(n): every n up to MaxMicros, the whole multiples of
\* the 244 us period, and the values around the limits of each resolution
PctMicros ==
  (0..MaxMicros) \cup {PCT_MICROS_PERIOD * t : t \in 0..MaxTicks}
    \cup {15127, 15128, 15371, 15372, 15860, 16103, 999179, 999180, 999181,
          999999, 1000000, 1000001, 1000500, 1001000, 1004999, 61424999,
          61425000, 61425001, 61425999, 61426000}

\* Duration::milliseconds(n): every n up to MaxMillis, the whole multiples of
\* the 15 ms period, and the values around the limits of each resolution
PctMillis ==
  (0..MaxMillis) \cup {PCT_MILLIS_PERIOD * t : t \in 0..MaxTicks}
    \cup {61424, 61425, 61426, 62000, 4095000, 4095001, 4095999,
          4096000}

PctRequests ==
  {PctRequest("seconds", n) :
     n \in (0..MaxSecs) \cup {245699, 245700, 245701, 300000}}
    \cup {PctRequest("minutes", n) : n \in 0..MaxMins}
    \cup {PctRequest("days", n) : n \in {3, 106751991, 106751992}}
    \cup {PctRequest("microseconds", n) : n \in PctMicros}
    \cup {PctRequest("milliseconds", n) : n \in PctMillis}
    \cup {PctRequest("nanoseconds", n) :
            n \in {-1, 1, 243999, 244001, 15000001, 999180001, 1000000001}}
    \cup {PctRequest("microseconds", n) : n \in {-1000, -244, -1}}

PctDuration(q) ==
  CASE q.unit = "seconds" -> Duration_seconds(I64(q.n))
    [] q.unit = "minutes" -> Duration_minutes(I64(q.n))
    [] q.unit = "days" -> Duration_days(I64(q.n))
    [] q.unit = "microseconds" -> Duration_microseconds(I64(q.n))
    [] q.unit = "milliseconds" -> Duration_milliseconds(I64(q.n))
    [] q.unit = "nanoseconds" -> Duration_nanoseconds(I64(q.n))

Init_Pct ==
  /\ regs = ZeroRegs
  /\ pre = regs
  /\ mux_addr = 0
  /\ mux_chan = 0
  /\ mux_sel = 0
  /\ other = NoOther
  /\ \E q \in PctRequests :
       call = [op |-> "pct_ticks_and_rate_for_duration",
               duration |-> PctDuration(q), unit |-> q.unit, n |-> q.n]
  /\ prog = <<>>
  /\ reg_val = 0
  /\ rbuf = <<>>
  /\ log = <<>>
  /\ result = "idle"
  /\ ret = Ok(<<>>)
  /\ prev = [call |-> NoCall, result |-> "idle", ret |-> Ok(<<>>)]
  /\ ncalls = 0

Eval_pct_ticks_and_rate_for_duration ==
  /\ result = "idle"
  /\ call.op = "pct_ticks_and_rate_for_duration"
  /\ LET r == pct_ticks_and_rate_for_duration(call.duration)
     IN /\ ret' = r
        /\ result' = IF r.panic THEN "panic" ELSE "ok"
  /\ ncalls' = ncalls + 1
  /\ UNCHANGED <<regs, mux_addr, mux_chan, mux_sel, other, call, prog,
                 reg_val, rbuf, log, prev, pre>>

Next_Pct == Eval_pct_ticks_and_rate_for_duration

SpecPct == Init_Pct /\ [][Next_Pct]_vars

Evaluated == call.op = "pct_ticks_and_rate_for_duration" /\ result # "idle"

\* C9: a request of N whole seconds, 1 <= N <= 4095, given in seconds or as
\* M whole minutes with 60 * M <= 4095, returns (N, Hertz1) and an
\* achievable duration equal to the request.
C9_WholeSecondsExact ==
  Evaluated =>
    LET secs == IF call.unit = "seconds" THEN call.n
                ELSE IF call.unit = "minutes" THEN 60 * call.n ELSE 0
    IN (1 <= secs /\ secs <= 4095) =>
         /\ result = "ok"
         /\ ret.ticks = secs
         /\ ret.freq = Hertz1
         /\ ret.estimated = call.duration

C9_Witness ==
  /\ Evaluated
  /\ call.unit = "minutes"
  /\ call.n = 68
  /\ ret.ticks = 4080
  /\ ret.freq = Hertz1
  /\ ret.estimated = Duration_seconds(I64(4080))

\* C10 as claimed: M whole minutes with 4095 < 60 * M and M <= 4095 return
\* (M, HertzSixtieth) and the request as achievable duration; every duration
\* of more than 4095 minutes returns (4095, HertzSixtieth) and 4095 minutes.
C10_MinutesAndSaturation ==
  Evaluated =>
    /\ (call.unit = "minutes" /\ 4095 < 60 * call.n /\ call.n <= 4095) =>
         /\ result = "ok"
         /\ ret.ticks = call.n
         /\ ret.freq = HertzSixtieth
         /\ ret.estimated = call.duration
    /\ I64Gt(call.duration, Duration_minutes(I64(4095))) =>
         /\ result = "ok"
         /\ ret.ticks = 4095
         /\ ret.freq = HertzSixtieth
         /\ ret.estimated = Duration_minutes(I64(4095))

\* C10, the failing case: a duration of more than 4095 minutes whose count
\* of microseconds does not fit an i64 makes the function panic
C10_Witness ==
  /\ Evaluated
  /\ call.unit = "days"
  /\ call.n = 106751992
  /\ I64Gt(call.duration, Duration_minutes(I64(4095)))
  /\ result = "panic"

\* C10 for the durations whose microseconds fit an i64: both parts hold
C10_MinutesAndSaturationNoOverflow ==
  (Evaluated /\ ~num_microseconds_overflows(call.duration)) =>
    C10_MinutesAndSaturation

C10_SaturationReached ==
  /\ Evaluated
  /\ call.unit = "seconds"
  /\ call.n = 245701
  /\ ret.ticks = 4095
  /\ ret.freq = HertzSixtieth

\* C11 as claimed: a request of exactly N x 244 microseconds, 1 <= N <= 4095,
\* returns (N, Hertz4096) and an achievable duration equal to the request.
C11_WholeMicrosTicksExact ==
  (Evaluated /\ call.unit = "microseconds"
     /\ call.n % PCT_MICROS_PERIOD = 0
     /\ 1 <= call.n \div PCT_MICROS_PERIOD
     /\ call.n \div PCT_MICROS_PERIOD <= 4095) =>
    /\ result = "ok"
    /\ ret.ticks = call.n \div PCT_MICROS_PERIOD
    /\ ret.freq = Hertz4096
    /\ ret.estimated = call.duration

\* C11, the failing case: 62 x 244 us = 15128 us has 15 whole milliseconds,
\* which the code takes for one 15 ms period
C11_Witness ==
  /\ Evaluated
  /\ call.unit = "microseconds"
  /\ call.n = 62 * PCT_MICROS_PERIOD
  /\ ret.ticks = 1
  /\ ret.freq = Hertz64
  /\ ret.estimated = Duration_milliseconds(I64(15))

\* C11 where it holds: N x 244 us whose whole milliseconds are below 15 or
\* not a multiple of 15
C11_WholeMicrosTicksOffMillisGrid ==
  (Evaluated /\ call.unit = "microseconds"
     /\ ((call.n \div 1000) % PCT_MILLIS_PERIOD # 0
           \/ call.n \div 1000 < PCT_MILLIS_PERIOD)) =>
    C11_WholeMicrosTicksExact

WholeSeconds(d) == Duration_seconds(num_seconds(d)) = d

\* C12 as claimed: a request of exactly N x 15 ms, 1 <= N <= 4095, that is not
\* a whole number of seconds returns (N, Hertz64) and the request as
\* achievable duration; every duration above 4095 x 244 us, at most
\* 4095 x 15 ms and not a whole number of seconds selects Hertz64 with
\* ticks = whole milliseconds / 15.
C12_MillisResolution ==
  Evaluated =>
    /\ (call.unit = "milliseconds" /\ call.n % PCT_MILLIS_PERIOD = 0
          /\ 1 <= call.n \div PCT_MILLIS_PERIOD
          /\ call.n \div PCT_MILLIS_PERIOD <= 4095
          /\ call.n % 1000 # 0) =>
         /\ result = "ok"
         /\ ret.ticks = call.n \div PCT_MILLIS_PERIOD
         /\ ret.freq = Hertz64
         /\ ret.estimated = call.duration
    /\ (I64Gt(call.duration, Duration_microseconds(I64(4095 * 244)))
          /\ ~I64Gt(call.duration, Duration_milliseconds(I64(4095 * 15)))
          /\ ~WholeSeconds(call.duration)) =>
         /\ result = "ok"
         /\ ret.freq = Hertz64
         /\ ret.ticks = BigToInt(num_milliseconds(call.duration).mag) \div 15

\* C12, the failing case: 1000.5 ms is not a whole number of seconds, but its
\* whole milliseconds are, and the code selects one tick of 1 Hz
C12_Witness ==
  /\ Evaluated
  /\ call.unit = "microseconds"
  /\ call.n = 1000500
  /\ ~WholeSeconds(call.duration)
  /\ ret.ticks = 1
  /\ ret.freq = Hertz1

\* C12 where it holds: the first part as claimed, the second for durations
\* that are whole microseconds and whose whole milliseconds are not a whole
\* number of seconds
C12_MillisResolutionWholeMillis ==
  (Evaluated /\ call.unit # "nanoseconds"
     /\ I64Rem(num_milliseconds(call.duration), 1000) # 0) =>
    C12_MillisResolution

\* the tick periods of the device, in eighths of a nanosecond: 1/4096 s,
\* 1/64 s, 1 s and 60 s
TickPeriodEighthNanos(freq) ==
  CASE freq = Hertz4096 -> I64(1953125)
    [] freq = Hertz64 -> I64(125000000)
    [] freq = Hertz1 -> I64Mul(I64(1000000000), 8)
    [] freq = HertzSixtieth -> I64Mul(I64(1000000000), 480)

\* C13 as claimed: for a non-negative duration d with
\* pct_ticks_and_rate_for_duration(d) = (ticks, freq, achievable),
\* pct_ticks_and_rate_for_duration(achievable) is the same triple.
C13_Idempotent ==
  (Evaluated /\ result = "ok" /\ ~call.duration.neg) =>
    pct_ticks_and_rate_for_duration(ret.estimated) = ret

\* C13, the failing case: 16 ms gives 65 ticks of 244 us, 15860 us, and
\* 15860 us gives one tick of 15 ms
C13_Witness ==
  /\ Evaluated
  /\ call.unit = "milliseconds"
  /\ call.n = 16
  /\ ret = PctResult(65, Hertz4096, Duration_microseconds(I64(15860)))
  /\ pct_ticks_and_rate_for_duration(ret.estimated)
       = PctResult(1, Hertz64, Duration_milliseconds(I64(15)))

\* the durations a request is compared with for C14
PctProbes ==
  {PctRequest("milliseconds", 15), PctRequest("milliseconds", 16),
   PctRequest("milliseconds", 1000), PctRequest("milliseconds", 1001),
   PctRequest("milliseconds", 61425), PctRequest("seconds", 4095),
   PctRequest("seconds", 4096)}

FinestCovering(d) ==
  IF I64Gt(num_seconds(d), I64(4095)) THEN HertzSixtieth
  ELSE IF I64Gt(num_milliseconds(d), I64(4095 * 15)) THEN Hertz1
  ELSE IF I64Gt(num_microseconds_wide(d), I64(4095 * 244)) THEN Hertz64
  ELSE Hertz4096

C15_TicksFitTimer ==
  call.op = "config_countdown_timer" =>
    LET w == DeviceWrites(log)
        ticks == pct_ticks_and_rate_for_duration(call.duration).ticks
    IN Len(w) >= 5 =>
         /\ ticks <= MAX_PCT_TICKS
         /\ w[5].w = <<REG_TIMER_VALUE0, ticks % 256, ticks \div 256>>

\* C15, the failing case: -244 us selects 65535 ticks and 0xFF, 0x0F is
\* written
C15_Witness ==
  /\ call.op = "config_countdown_timer"
  /\ call.duration = Duration_microseconds(I64(-244))
  /\ pct_ticks_and_rate_for_duration(call.duration).ticks = 65535
  /\ Len(DeviceWrites(log)) >= 5
  /\ DeviceWrites(log)[5].w = <<REG_TIMER_VALUE0, 255, 15>>

\* C15 where it holds: durations that are not negative
C15_TicksFitTimerNonNegative ==
  (call.op = "config_countdown_timer" /\ ~call.duration.neg) =>
    C15_TicksFitTimer

\* ticks x the tick period of freq, in eighths of a nanosecond
TicksTimesPeriod(ticks, freq) ==
  CASE freq = Hertz4096 -> I64Mul(I64Mul(I64(ticks), 15625), 125)
    [] freq = Hertz64 -> I64Mul(I64Mul(I64(ticks), 125000), 1000)
    [] freq = Hertz1 -> I64Mul(I64Mul(I64Mul(I64(ticks), 8000), 1000), 1000)
    [] freq = HertzSixtieth ->
         I64Mul(I64Mul(I64Mul(I64Mul(I64(ticks), 480), 1000), 1000), 1000)

\* C16 as claimed: the achievable duration returned is ticks multiplied by
\* the period of the selected frequency: 1/4096 s (244.140625 us), 1/64 s
\* (15.625 ms), 1 s or 60 s.
C16_AchievableIsTicksTimesPeriod ==
  (Evaluated /\ result = "ok") =>
    I64Mul(ret.estimated, 8) = TicksTimesPeriod(ret.ticks, ret.freq)

\* C16, the failing case: one tick of 64 Hz is returned as 15 ms where the
\* period is 15.625 ms
C16_Witness ==
  /\ Evaluated
  /\ call.unit = "milliseconds"
  /\ call.n = PCT_MILLIS_PERIOD
  /\ ret = PctResult(1, Hertz64, Duration_milliseconds(I64(15)))
  /\ TicksTimesPeriod(1, Hertz64) = I64Mul(Duration_microseconds(I64(15625)), 8)

\* C16 where it holds: the frequencies whose period is a whole number of
\* seconds, for durations that are not negative
C16_AchievableWholeSecondPeriods ==
  (Evaluated /\ result = "ok" /\ ~call.duration.neg
     /\ ret.freq \in {Hertz1, HertzSixtieth}) =>
    C16_AchievableIsTicksTimesPeriod

\* C16 in the code's periods: 244 us and 15 ms stand for 1/4096 s and 1/64 s
C16_AchievableInCodePeriods ==
  (Evaluated /\ result = "ok" /\ ~call.duration.neg) =>
    ret.estimated =
      CASE ret.freq = Hertz4096 ->
             Duration_microseconds(I64(ret.ticks * PCT_MICROS_PERIOD))
        [] ret.freq = Hertz64 ->
             Duration_milliseconds(I64(ret.ticks * PCT_MILLIS_PERIOD))
        [] ret.freq = Hertz1 -> Duration_seconds(I64(ret.ticks))
        [] ret.freq = HertzSixtieth -> Duration_minutes(I64(ret.ticks))

\* C17: for a non-negative request below 4095 minutes the achievable
\* duration returned is not longer than the request, and is shorter than it
\* by less than one tick period of the selected frequency.
C17_ShortfallBelowOnePeriod ==
  (Evaluated /\ ~call.duration.neg
     /\ I64Lt(call.duration, Duration_minutes(I64(4095)))) =>
    /\ result = "ok"
    /\ ~ret.estimated.neg
    /\ ~I64Gt(ret.estimated, call.duration)
    /\ BigLt(BigMul(call.duration.mag, 8),
             BigAdd(BigMul(ret.estimated.mag, 8),
                    TickPeriodEighthNanos(ret.freq).mag, 0))

C17_Witness ==
  /\ Evaluated
  /\ call.unit = "milliseconds"
  /\ call.n = 2047
  /\ ret = PctResult(136, Hertz64, Duration_milliseconds(I64(2040)))

(***************************************************************************)
(* A countdown of three seconds, polled.  The bus works, the device keeps  *)
(* counting and the caller keeps polling.                                  *)
(***************************************************************************)
\* the timer stopped, and an earlier repeating countdown still running with
\* its flag raised
CountdownInitRegs ==
  {ZeroRegs,
   [ZeroRegs EXCEPT ![REG_CONTROL1] = TimerRepeatBit + TimerEnableBit + Hertz64,
                    ![REG_STATUS] = PeriodicTimerFlag,
                    ![REG_TIMER_VALUE0] = 2, ![REG_TIMER_STATUS0] = 1]}

Init_Countdown ==
  /\ regs \in CountdownInitRegs
  /\ pre = regs
  /\ \E h \in Handles : InitHandle(h)

Call_config_countdown_timer_3s ==
  \E repeat \in BOOLEAN, start \in BOOLEAN :
    StartFirst([op |-> "config_countdown_timer",
                duration |-> Duration_seconds(I64(3)),
                repeat |-> repeat, start |-> start,
                pct |-> pct_ticks_and_rate_for_duration(
                          Duration_seconds(I64(3)))],
               config_countdown_timer(Duration_seconds(I64(3)), repeat, start),
               FALSE)

Poll_check_and_clear_countdown ==
  StartPoll([op |-> "check_and_clear_countdown"], check_and_clear_countdown)

BusOk == MuxSelectOk \/ BusWriteOk \/ BusReadOk

Next_Countdown ==
  \/ Call_config_countdown_timer_3s
  \/ Poll_check_and_clear_countdown
  \/ BusOk
  \/ DeviceTimerTick

SpecCountdown ==
  /\ Init_Countdown
  /\ [][Next_Countdown]_vars
  /\ WF_vars(BusOk)
  /\ WF_vars(Poll_check_and_clear_countdown)
  /\ WF_vars(DeviceTimerTick)

OneShotStarted ==
  IF call.op = "config_countdown_timer" /\ result = "ok"
  THEN ~call.repeat /\ call.start
  ELSE FALSE

PollReturned(b) ==
  IF call.op = "check_and_clear_countdown" /\ result = "ok"
  THEN ret.val = <<b>>
  ELSE FALSE

OneShot == 0 = BitAnd(regs[REG_CONTROL1], TimerRepeatBit)

\* C18: after config_countdown_timer(3 s, repeat = false, start = true) has
\* returned Ok, a poll of check_and_clear_countdown eventually returns true;
\* and in one-shot mode, once a poll has returned true, no poll started
\* afterwards returns true.
C18_OneShotExpiresOnce ==
  /\ OneShotStarted ~> PollReturned(TRUE)
  /\ []((PollReturned(TRUE) /\ OneShot) =>
          [](result = "running" => [](~PollReturned(TRUE))))

C18_Witness ==
  /\ PollReturned(FALSE)
  /\ prev.call.op = "check_and_clear_countdown"
  /\ prev.result = "ok"
  /\ prev.ret.val = <<TRUE>>
  /\ OneShot
  /\ TimerEnabled(regs)
  /\ TimerCounter(regs) = 0
  /\ regs[REG_TIMER_VALUE0] = 3

(***************************************************************************)
(* The status checks.  The device may raise a status flag at any point of  *)
(* a check.                                                                *)
(***************************************************************************)
CheckedFlags ==
  {PowerOnResetFlagBit, EventFlagBit, AlarmFlagBit, PeriodicTimerFlag,
   BackupSwitchFlag}

\* the flag each public check passes to check_and_clear_bits
CheckedFlag(op) ==
  CASE op = "check_and_clear_power_on_reset" -> PowerOnResetFlagBit
    [] op = "check_and_clear_ext_event" -> EventFlagBit
    [] op = "check_and_clear_alarm" -> AlarmFlagBit
    [] op = "check_and_clear_countdown" -> PeriodicTimerFlag
    [] op = "check_and_clear_backup_event" -> BackupSwitchFlag

StatusChecks ==
  {"check_and_clear_power_on_reset", "check_and_clear_ext_event",
   "check_and_clear_alarm", "check_and_clear_countdown",
   "check_and_clear_backup_event"}

\* status bytes before the first check: no flag, every flag, alternate bits,
\* the two event flags alone, and AF, TF and BSF together
StatusBytes == {0, 255, 170, 85, 3, 44}

Init_Flags ==
  /\ regs \in {[ZeroRegs EXCEPT ![REG_STATUS] = st] : st \in StatusBytes}
  /\ pre = regs
  /\ \E h \in Handles : InitHandle(h)

Call_check_and_clear_power_on_reset ==
  Start([op |-> "check_and_clear_power_on_reset"],
        check_and_clear_power_on_reset, FALSE)

Call_check_and_clear_ext_event ==
  Start([op |-> "check_and_clear_ext_event"], check_and_clear_ext_event, FALSE)

Call_check_and_clear_backup_event ==
  Start([op |-> "check_and_clear_backup_event"],
        check_and_clear_backup_event, FALSE)

\* the device raises one of the flags while a check is running
DeviceRaisesFlag ==
  /\ result = "running"
  /\ \E f \in CheckedFlags :
       /\ 0 = BitAnd(regs[REG_STATUS], f)
       /\ regs' = [regs EXCEPT ![REG_STATUS] = BitOr(@, f)]
  /\ UNCHANGED <<mux_addr, mux_chan, mux_sel, other, call, prog, reg_val,
                 rbuf, log, result, ret, prev, pre, ncalls>>

Next_Flags ==
  \/ Call_check_and_clear_power_on_reset
  \/ Call_check_and_clear_ext_event
  \/ Call_check_and_clear_alarm
  \/ Call_check_and_clear_countdown
  \/ Call_check_and_clear_backup_event
  \/ Bus
  \/ DeviceRaisesFlag

SpecFlags == Init_Flags /\ [][Next_Flags]_vars

\* C19: a status check that returns Ok returns whether its flag was set in the
\* status byte it read.  When the flag was clear the check writes nothing to
\* the device.  When it was set the check issues one write, to the status
\* register, of the byte it read back with that flag cleared and every other
\* bit as read, and the status register holds that byte when the check
\* returns, which is the byte of before the call with the flag cleared when
\* the device raised nothing up to the second read.  When the flag was clear
\* the status register is as the check read it.  No other register changes.
C19_CheckAndClear ==
  (call.op \in StatusChecks /\ result = "ok") =>
    LET flag == CheckedFlag(call.op)
        w == DeviceWrites(log)
        was_set == 0 # BitAnd(rbuf[1], flag)
    IN /\ ret.val = <<was_set>>
       /\ ~was_set => w = <<>>
       /\ was_set =>
            /\ Len(w) = 1
            /\ w[1].w = <<REG_STATUS, BitAnd(reg_val, 255 - flag)>>
            /\ 0 # BitAnd(reg_val, flag)
            /\ regs[REG_STATUS] = BitAnd(reg_val, 255 - flag)
            /\ reg_val = pre[REG_STATUS] =>
                 regs[REG_STATUS] = BitAnd(pre[REG_STATUS], 255 - flag)
       /\ ~was_set => regs[REG_STATUS] = rbuf[1]
       /\ \A a \in RegAddrs \ {REG_STATUS} : regs[a] = pre[a]

C19_Witness ==
  /\ call.op = "check_and_clear_backup_event"
  /\ result = "ok"
  /\ ret.val = <<TRUE>>
  /\ pre[REG_STATUS] = 255 - EventFlagBit
  /\ regs[REG_STATUS] = 255 - EventFlagBit - BackupSwitchFlag
  /\ prev.call.op = "check_and_clear_ext_event"
  /\ prev.result = "ok"
  /\ prev.ret.val = <<TRUE>>

(***************************************************************************)
(* Configuring the time stamp log.  The device may raise EVF or BSF while  *)
(* it is being configured.                                                 *)
(***************************************************************************)
\* Control 2, status and event control before the call; TSR reads 0.  With
\* the flags set the log holds one event, stamped 2024-02-29 12:34:56.
TimestampInitRegs ==
  {WriteRegs([ZeroRegs EXCEPT ![REG_CONTROL2] = c2, ![REG_STATUS] = st,
                              ![REG_EVENT_CONTROL] = ec],
             REG_COUNT_EVENTS_TS,
             IF st = 0 THEN <<0, 0, 0, 0, 0, 0, 0>>
             ELSE <<1, 86, 52, 18, 41, 2, 36>>) :
     c2 \in {0, 128, 255}, st \in {0, 255}, ec \in {0, 1, 250, 251}}

\* evt_source: u8, of which only TS_EVENT_SOURCE_BSF selects the backup
\* switchover
EventSources == {TS_EVENT_SOURCE_EVI, TS_EVENT_SOURCE_BSF, 2}

Init_Timestamp ==
  /\ regs \in TimestampInitRegs
  /\ pre = regs
  /\ \E h \in Handles : InitHandle(h)

Call_config_timestamp_logging ==
  \E evt_source \in EventSources, overwrite \in BOOLEAN, start \in BOOLEAN :
    StartFirst([op |-> "config_timestamp_logging", evt_source |-> evt_source,
                overwrite |-> overwrite, start |-> start],
               config_timestamp_logging(evt_source, overwrite, start), FALSE)

\* an event or a backup switchover happens while an operation is running:
\* the device raises EVF or BSF
DeviceDetectsEvent ==
  /\ result = "running"
  /\ \E f \in {EventFlagBit, BackupSwitchFlag} :
       /\ 0 = BitAnd(regs[REG_STATUS], f)
       /\ regs' = [regs EXCEPT ![REG_STATUS] = BitOr(@, f)]
  /\ UNCHANGED <<mux_addr, mux_chan, mux_sel, other, call, prog, reg_val,
                 rbuf, log, result, ret, prev, pre, ncalls>>

Next_Timestamp ==
  \/ Call_config_timestamp_logging
  \/ Call_check_and_clear_ext_event
  \/ Bus
  \/ DeviceDetectsEvent

SpecTimestamp == Init_Timestamp /\ [][Next_Timestamp]_vars

TimeStampEnabled(r) == 0 # BitAnd(r[REG_CONTROL2], TimeStampEnableBit)

Has(byte, bit) == 0 # BitAnd(byte, bit)

\* C20: config_timestamp_logging writes, in this order: Control 2 with TSE
\* cleared; the status register with EVF and BSF cleared; event control with
\* TSS set iff the source is TS_EVENT_SOURCE_BSF; event control with TSOW as
\* overwrite; event control with TSR set; Control 2 with TSE as start, which
\* is the last write.  Once the first write has succeeded TSE is 0 in every
\* device state until the last write succeeds, and when the call returns Ok
\* TSE is start, TSS is the requested source and TSOW is overwrite.
C20_TimestampConfigOrder ==
  call.op = "config_timestamp_logging" =>
    LET w == DeviceWrites(log)
        target == <<REG_CONTROL2, REG_STATUS, REG_EVENT_CONTROL,
                    REG_EVENT_CONTROL, REG_EVENT_CONTROL, REG_CONTROL2>>
        bsf == call.evt_source = TS_EVENT_SOURCE_BSF
    IN /\ Len(w) <= 6
       /\ \A i \in 1..Len(w) : w[i].w[1] = target[i] /\ Len(w[i].w) = 2
       /\ Len(w) >= 1 =>
            w[1].w[2] = BitAnd(pre[REG_CONTROL2], 255 - TimeStampEnableBit)
       /\ Len(w) >= 2 =>
            0 = BitAnd(w[2].w[2], EventFlagBit + BackupSwitchFlag)
       /\ Len(w) >= 3 =>
            w[3].w[2] = BitAnd(pre[REG_EVENT_CONTROL], 255 - TimeStampSourceBit)
                          + (IF bsf THEN TimeStampSourceBit ELSE 0)
       /\ Len(w) >= 4 =>
            w[4].w[2] = BitAnd(w[3].w[2], 255 - TimeStampOverwriteBit)
                          + (IF call.overwrite THEN TimeStampOverwriteBit ELSE 0)
       /\ Len(w) >= 5 => w[5].w[2] = BitOr(w[4].w[2], TimeStampResetBit)
       /\ Len(w) = 6 =>
            /\ prog = <<>>
            /\ log[Len(log)] = w[6]
            /\ w[6].w[2] = BitAnd(pre[REG_CONTROL2], 255 - TimeStampEnableBit)
                             + (IF call.start THEN TimeStampEnableBit ELSE 0)
       /\ (Len(w) >= 1 /\ w[1].ok /\ TimeStampEnabled(regs)) =>
            Len(w) = 6 /\ result = "ok"
       /\ result = "ok" =>
            /\ Len(w) = 6
            /\ TimeStampEnabled(regs) <=> call.start
            /\ Has(regs[REG_EVENT_CONTROL], TimeStampSourceBit) <=> bsf
            /\ Has(regs[REG_EVENT_CONTROL], TimeStampOverwriteBit)
                 <=> call.overwrite

C20_Witness ==
  /\ call.op = "config_timestamp_logging"
  /\ result = "running"
  /\ call.start
  /\ call.evt_source = TS_EVENT_SOURCE_BSF
  /\ TimeStampEnabled(pre)
  /\ ~TimeStampEnabled(regs)
  /\ Len(DeviceWrites(log)) = 5
  /\ log[Len(log)].ok
  /\ log[Len(log)].w = <<REG_EVENT_CONTROL, 255>>
  /\ regs[REG_EVENT_CONTROL] = 251
  /\ pre[REG_COUNT_EVENTS_TS] = 1
  /\ ReadRegs(regs, REG_COUNT_EVENTS_TS, 7) = <<0, 0, 0, 0, 0, 0, 0>>

(***************************************************************************)
(* SpecEventLog: the time stamp log is read on a device that logs events.  *)
(* The log starts empty.  While TSE is set the device counts each event    *)
(* and stamps it with its clock: the first event when TSOW is 0, the most  *)
(* recent one when TSOW is 1.  The clock is the one the device was left    *)
(* with or the one set_datetime writes; config_timestamp_logging resets    *)
(* the log.                                                                *)
(***************************************************************************)
MaxEvents == 2

\* the clock before the first call, with the log empty, logging enabled or
\* not, and TSOW and TSS set or not
EventLogInitRegs ==
  {[Encoded(dt) EXCEPT ![REG_CONTROL2] = c2, ![REG_EVENT_CONTROL] = ec] :
     dt \in {DT(2021, 3, 1, 12, 0, 0)},
     c2 \in {0, TimeStampEnableBit},
     ec \in {0, TimeStampOverwriteBit, TimeStampSourceBit}}

Init_EventLog ==
  /\ regs \in EventLogInitRegs
  /\ pre = regs
  /\ \E h \in Handles : InitHandle(h)

Call_get_event_count_and_datetime ==
  Start([op |-> "get_event_count_and_datetime"],
        get_event_count_and_datetime, FALSE)

\* an event of the selected source happens while logging is enabled: the
\* device counts it, raises the flag of the source, and copies seconds,
\* minutes, hours, date, month and year of its clock to the time stamp when
\* this is the first event or TSOW is set
DeviceLogsEvent ==
  /\ TimeStampEnabled(regs)
  /\ regs[REG_COUNT_EVENTS_TS] < MaxEvents
  /\ LET stamp == regs[REG_COUNT_EVENTS_TS] = 0
                    \/ Has(regs[REG_EVENT_CONTROL], TimeStampOverwriteBit)
         flag == IF Has(regs[REG_EVENT_CONTROL], TimeStampSourceBit)
                 THEN BackupSwitchFlag ELSE EventFlagBit
         clock == ReadRegs(regs, REG_SECONDS, 3) \o ReadRegs(regs, REG_DATE, 3)
     IN regs' = [a \in DOMAIN regs |->
                   IF a = REG_COUNT_EVENTS_TS THEN regs[a] + 1
                   ELSE IF a > REG_COUNT_EVENTS_TS
                           /\ a < REG_COUNT_EVENTS_TS + 7 /\ stamp
                   THEN clock[a - REG_COUNT_EVENTS_TS]
                   ELSE IF a = REG_STATUS THEN BitOr(regs[a], flag)
                   ELSE regs[a]]
  /\ UNCHANGED <<mux_addr, mux_chan, mux_sel, other, call, prog, reg_val,
                 rbuf, log, result, ret, prev, pre, ncalls>>

Next_EventLog ==
  \/ Call_get_event_count_and_datetime
  \/ Call_set_datetime
  \/ Call_config_timestamp_logging
  \/ Bus
  \/ DeviceLogsEvent

SpecEventLog == Init_EventLog /\ [][Next_EventLog]_vars

EventLogRead ==
  /\ call.op = "get_event_count_and_datetime"
  /\ prog = <<>>
  /\ log # <<>>
  /\ log[Len(log)].ok

\* the seven bytes the read returned: the registers from the count register
\* on, as they were when the device answered
EventLogBytes == rbuf

\* C21: get_event_count_and_datetime issues one read of 7 bytes from the
\* count register; it returns (0, None) when the count byte is 0 and, when
\* the count byte is not 0, (count, Some(timestamp)) with the time stamp
\* decoded from the six BCD bytes, the year being 2000 + the year byte.
C21_EventCountAndDatetime ==
  /\ call.op = "get_event_count_and_datetime" =>
       /\ Len(DeviceWrites(log)) = 0
       /\ \A i \in 1..Len(log) :
            log[i].addr = RV3028_ADDRESS =>
              /\ i = Len(log)
              /\ log[i].kind = "write_read"
              /\ log[i].w = <<REG_COUNT_EVENTS_TS>>
              /\ log[i].ok => log[i].r = 7
  /\ EventLogRead =>
       LET b == EventLogBytes
       IN /\ result = "ok"
          /\ Len(b) = 7
          /\ b[1] <= regs[REG_COUNT_EVENTS_TS]
          /\ b[1] = regs[REG_COUNT_EVENTS_TS]
               => b = ReadRegs(regs, REG_COUNT_EVENTS_TS, 7)
          /\ ret.val[1] = b[1]
          /\ (ret.val[2] = None) <=> (b[1] = 0)
          /\ b[1] # 0 =>
               ret.val[2] = Some(DT(2000 + bcd_to_bin(b[7]), bcd_to_bin(b[6]),
                                    bcd_to_bin(b[5]), bcd_to_bin(b[4]),
                                    bcd_to_bin(b[3]), bcd_to_bin(b[2])))

\* set_datetime wrote 2024-02-29 12:34:56 to a device that was logging, the
\* device then logged its first event, and the read returns a count of 1
\* with that time stamp
C21_Witness ==
  /\ EventLogRead
  /\ prev.call.op = "set_datetime"
  /\ prev.call.dt = DT(2024, 2, 29, 12, 34, 56)
  /\ prev.result = "ok"
  /\ result = "ok"
  /\ ret.val = <<1, Some(DT(2024, 2, 29, 12, 34, 56))>>

\* the log was empty when it was read: (0, None)
C21_EmptyWitness ==
  /\ EventLogRead
  /\ prev.call.op = "config_timestamp_logging"
  /\ prev.result = "ok"
  /\ result = "ok"
  /\ ret.val = <<0, None>>

(***************************************************************************)
(* SpecPassword: the write protection password is set on a device whose    *)
(* password function is enabled or not, locked or not, busy or not.        *)
(***************************************************************************)
Passwords == {<<0, 0, 0, 0>>, <<1, 2, 3, 4>>}
NewPasswords == {<<1, 2, 3, 4>>, <<9, 9, 9, 9>>}

WithPasswords(r, eepwe, eepw, pw) ==
  [a \in DOMAIN r |->
     IF a = REG_EEPROM_PASSWORD_ENABLE THEN eepwe
     ELSE IF a >= REG_EEPROM_PASSWORD_0 /\ a < REG_EEPROM_PASSWORD_0 + 4
     THEN eepw[a - REG_EEPROM_PASSWORD_0 + 1]
     ELSE IF a >= REG_USER_PASSWORD_0 /\ a < REG_USER_PASSWORD_0 + 4
     THEN pw[a - REG_USER_PASSWORD_0 + 1]
     ELSE r[a]]

PasswordInitRegs ==
  {WithPasswords([ZeroRegs EXCEPT ![REG_STATUS] = st], eepwe, eepw, pw) :
     st \in {0, EepromBusyBit}, eepwe \in {0, 255},
     eepw \in Passwords, pw \in Passwords}

Init_Password ==
  /\ regs \in PasswordInitRegs
  /\ pre = regs
  /\ \E h \in Handles : InitHandle(h)

Call_set_write_protect_password ==
  \E pass \in NewPasswords, enable \in BOOLEAN :
    Start([op |-> "set_write_protect_password", pass |-> pass,
           enable |-> enable],
          set_write_protect_password(pass, enable), FALSE)

Next_Password ==
  \/ Call_set_write_protect_password
  \/ Bus
  \/ BusErrorKept
  \/ DeviceEepromDone

SpecPassword == Init_Password /\ [][Next_Password]_vars

WritesTo(l, reg) ==
  {i \in 1..Len(l) : /\ l[i].addr = RV3028_ADDRESS
                     /\ l[i].kind = "write"
                     /\ l[i].w[1] = reg}

\* the writes of set_write_protect_password come in the order reference
\* password, password enable, EEPROM command 0x00, EEPROM command 0x11
C22_WriteOrder ==
  call.op = "set_write_protect_password" =>
    /\ \A i \in WritesTo(log, REG_EEPROM_PASSWORD_ENABLE) :
         /\ log[i].w = <<REG_EEPROM_PASSWORD_ENABLE,
                         IF call.enable THEN 255 ELSE 0>>
         /\ \E j \in WritesTo(log, REG_EEPROM_PASSWORD_0) :
              j < i /\ log[j].w = <<REG_EEPROM_PASSWORD_0>> \o call.pass
    /\ \A i \in WritesTo(log, REG_EEPROM_EE_CMD) :
         /\ \E j \in WritesTo(log, REG_EEPROM_PASSWORD_ENABLE) : j < i
         /\ log[i].w[2] \in {0, 17}
         /\ log[i].w[2] = 17 =>
              \E j \in WritesTo(log, REG_EEPROM_EE_CMD) :
                j < i /\ log[j].w[2] = 0
    /\ result = "ok" =>
         \E i \in WritesTo(log, REG_EEPROM_EE_CMD) : log[i].w[2] = 17

\* C22: set_write_protect_password(bytes, enable) writes the reference
\* password before the password enable register and issues the EEPROM update
\* (0x00, then 0x11) after both; after a call that returned Ok the reference
\* password is bytes and the password function is enabled iff enable.
C22_SetWriteProtectPassword ==
  /\ C22_WriteOrder
  /\ (call.op = "set_write_protect_password" /\ result = "ok") =>
       /\ PasswordAt(regs, REG_EEPROM_PASSWORD_0) = call.pass
       /\ (regs[REG_EEPROM_PASSWORD_ENABLE] = 255) <=> call.enable

\* the password function is enabled and the user password is the reference,
\* so the device is unlocked; a new reference is set with enable = false; the
\* call returns Ok and the password function is still enabled
C22_Witness ==
  /\ call = [op |-> "set_write_protect_password", pass |-> <<9, 9, 9, 9>>,
             enable |-> FALSE]
  /\ result = "ok"
  /\ ~Locked(pre)
  /\ pre[REG_EEPROM_PASSWORD_ENABLE] = 255
  /\ PasswordAt(regs, REG_EEPROM_PASSWORD_0) = <<9, 9, 9, 9>>
  /\ regs[REG_EEPROM_PASSWORD_ENABLE] = 255

\* C22 on a device whose password function is off when the call is made
C22_SetWriteProtectPasswordFromDisabled ==
  (/\ call.op = "set_write_protect_password"
   /\ result = "ok"
   /\ pre[REG_EEPROM_PASSWORD_ENABLE] # 255) =>
    /\ PasswordAt(regs, REG_EEPROM_PASSWORD_0) = call.pass
    /\ (regs[REG_EEPROM_PASSWORD_ENABLE] = 255) <=> call.enable

(***************************************************************************)
(* SpecProtect: passwords are entered, the password function is switched   *)
(* and the user RAM is written and read, up to MaxProtectCalls calls.      *)
(***************************************************************************)
MaxProtectCalls == 3

UserRam(r) == <<r[REG_USER_RAM1], r[REG_USER_RAM1 + 1]>>

\* the user password registers hold 0 after power-on, the user RAM 55, 77
ProtectInitRegs ==
  {[WithPasswords(ZeroRegs, eepwe, eepw, <<0, 0, 0, 0>>)
      EXCEPT ![REG_USER_RAM1] = 55, ![REG_USER_RAM1 + 1] = 77] :
     eepwe \in {0, 255}, eepw \in Passwords}

Init_Protect ==
  /\ regs \in ProtectInitRegs
  /\ pre = regs
  /\ \E h \in Handles : InitHandle(h)

Call_enter_user_password ==
  \E pass \in NewPasswords :
    StartWithin(MaxProtectCalls, [op |-> "enter_user_password", pass |-> pass],
                enter_user_password(pass), FALSE)

Call_toggle_write_protect_enabled ==
  \E enable \in BOOLEAN :
    StartWithin(MaxProtectCalls,
                [op |-> "toggle_write_protect_enabled", enable |-> enable],
                toggle_write_protect_enabled(enable), FALSE)

Call_set_user_ram ==
  \E data \in {<<44, 66>>, <<0, 0>>} :
    StartWithin(MaxProtectCalls, [op |-> "set_user_ram", data |-> data],
                set_user_ram(data), FALSE)

Call_get_user_ram ==
  StartWithin(MaxProtectCalls, [op |-> "get_user_ram"], get_user_ram, FALSE)

Next_Protect ==
  \/ Call_enter_user_password
  \/ Call_toggle_write_protect_enabled
  \/ Call_set_user_ram
  \/ Call_get_user_ram
  \/ Bus

SpecProtect == Init_Protect /\ [][Next_Protect]_vars

NoPasswordEntered(r) == PasswordAt(r, REG_USER_PASSWORD_0) = <<0, 0, 0, 0>>

ToggledTwice ==
  /\ prev.call = [op |-> "toggle_write_protect_enabled", enable |-> TRUE]
  /\ prev.result = "ok"
  /\ call = [op |-> "toggle_write_protect_enabled", enable |-> FALSE]
  /\ result = "ok"
  /\ NoPasswordEntered(pre)

\* what was sent: the kind of each transaction and the bytes written
Sent(l) == [i \in 1..Len(l) |-> <<l[i].kind, l[i].w>>]

ToggleReturnsReadBack ==
  call.op = "toggle_write_protect_enabled" =>
    /\ \E n \in 0..2 :
         Sent(DeviceTxns(log)) =
           SubSeq(<<<<"write", <<REG_EEPROM_PASSWORD_ENABLE,
                                 IF call.enable THEN 255 ELSE 0>>>>,
                    <<"write_read", <<REG_EEPROM_PASSWORD_ENABLE>>>>>>, 1, n)
    /\ \A i \in 1..(Len(log) - 1) : log[i].ok
    /\ result = "ok" =>
         /\ Len(rbuf) = 1
         /\ rbuf[1] = regs[REG_EEPROM_PASSWORD_ENABLE]
         /\ ret.val = <<rbuf[1] = 255>>

\* toggle_write_protect_enabled returns true iff the password enable register
\* reads 255 after its write; toggle(true) then toggle(false) with no password
\* entered returns Ok(true) from the second call.
C23_ToggleTwiceStillEnabled ==
  /\ ToggleReturnsReadBack
  /\ ToggledTwice => ret.val = <<TRUE>>

\* C23: toggle_write_protect_enabled returns true iff the password enable
\* register reads 255 after its write, not the requested value; toggle(true)
\* then toggle(false) with no password entered, on a device whose reference
\* password is not the power-on content 00 00 00 00 of the user password
\* registers, returns Ok(true) from the second call.
C23_ToggleReturnsReadBack ==
  /\ ToggleReturnsReadBack
  /\ (ToggledTwice /\ PasswordAt(pre, REG_EEPROM_PASSWORD_0) # <<0, 0, 0, 0>>)
       => (ret.val = <<TRUE>> /\ regs[REG_EEPROM_PASSWORD_ENABLE] = 255)
  /\ (ToggledTwice /\ PasswordAt(pre, REG_EEPROM_PASSWORD_0) = <<0, 0, 0, 0>>)
       => (ret.val = <<FALSE>> /\ regs[REG_EEPROM_PASSWORD_ENABLE] = 0)

C23_Witness ==
  /\ ToggledTwice
  /\ PasswordAt(pre, REG_EEPROM_PASSWORD_0) = <<1, 2, 3, 4>>
  /\ ret.val = <<TRUE>>
  /\ Len(log) >= 2
  /\ log[Len(log) - 1].w = <<REG_EEPROM_PASSWORD_ENABLE, 0>>

SetUserRamReturned ==
  /\ call.op = "set_user_ram"
  /\ result = "ok"
  /\ pre[REG_EEPROM_PASSWORD_ENABLE] = 255

GetAfterSetUserRam ==
  /\ call.op = "get_user_ram"
  /\ result = "ok"
  /\ prev.call.op = "set_user_ram"
  /\ prev.result = "ok"
  /\ regs[REG_EEPROM_PASSWORD_ENABLE] = 255

\* C24: with write protection enabled, when the user password differs from
\* the reference password set_user_ram returns Ok and leaves the user RAM as
\* it was, and get_user_ram returns that unchanged content; when the user
\* password is the reference password set_user_ram(x) stores x and the
\* get_user_ram that follows returns x.
C24_UserRamWriteProtected ==
  /\ SetUserRamReturned =>
       /\ Sent(DeviceTxns(log)) = <<<<"write", <<REG_USER_RAM1>> \o call.data>>>>
       /\ UserRam(regs) = IF Locked(pre) THEN UserRam(pre) ELSE call.data
  /\ (call.op = "get_user_ram" /\ result = "ok") =>
       /\ ret.val = UserRam(regs)
       /\ regs = pre
  /\ (GetAfterSetUserRam /\ ~Locked(regs)) => ret.val = prev.call.data

\* a password other than the reference was entered, set_user_ram([44, 66])
\* returned Ok, and get_user_ram returns the 55, 77 stored before
C24_Witness ==
  /\ GetAfterSetUserRam
  /\ PasswordAt(regs, REG_USER_PASSWORD_0) = <<9, 9, 9, 9>>
  /\ PasswordAt(regs, REG_EEPROM_PASSWORD_0) = <<1, 2, 3, 4>>
  /\ prev.call.data = <<44, 66>>
  /\ ret.val = <<55, 77>>

\* the reference password was entered and get_user_ram returns what
\* set_user_ram stored
C24_UnlockedWitness ==
  /\ GetAfterSetUserRam
  /\ PasswordAt(regs, REG_USER_PASSWORD_0) = <<1, 2, 3, 4>>
  /\ PasswordAt(regs, REG_EEPROM_PASSWORD_0) = <<1, 2, 3, 4>>
  /\ prev.call.data = <<44, 66>>
  /\ ret.val = <<44, 66>>

FailedTxns(l) == {i \in 1..Len(l) : ~l[i].ok}

\* C25: when a bus transaction of an operation fails, the operation issues no
\* further transaction and returns the error: a failed transaction is the
\* last one of the call, and the call has returned Err.
C25_FailFast ==
  \A i \in FailedTxns(log) : i = Len(log) /\ result = "err"

\* the 0x11 command write of the EEPROM update failed and the call went on to
\* read the status register and to write Control 1
C25_Witness ==
  /\ call.op = "set_write_protect_password"
  /\ \E i \in FailedTxns(log) :
       /\ log[i].w = <<REG_EEPROM_EE_CMD, 17>>
       /\ Len(log) >= i + 3
       /\ log[i + 1].w = <<REG_STATUS>>
       /\ log[Len(log)].w[1] = REG_CONTROL1
       /\ log[Len(log)].kind = "write"
  /\ result = "err"

\* C25 but for the kept result of the 0x11 command write: any other failed
\* transaction is the last one, a call that failed anywhere does not return
\* Ok, and after a failed 0x11 write only the busy wait and the switching on
\* of the automatic refresh follow
C25_FailFastButKeptResult ==
  /\ \A i \in FailedTxns(log) :
       \/ i = Len(log) /\ result = "err"
       \/ /\ log[i].w = <<REG_EEPROM_EE_CMD, 17>>
          /\ result \in {"running", "err"}
          /\ \A j \in (i + 1)..Len(log) :
               log[j].w[1] \in {REG_STATUS, REG_CONTROL1}
  /\ result = "ok" => FailedTxns(log) = {}

MuxSelect == Txn("write", mux_addr, <<mux_chan>>, 0, TRUE)

\* C26: on a handle with a non-zero mux address every transaction sent to the
\* RTC comes after a one-byte write of the channel byte to the mux address,
\* which is the first transaction of the operation, and nothing else is ever
\* sent to the mux; on a handle with mux address 0 every transaction is
\* addressed to the RTC.
C26_MuxPrecedes ==
  IF mux_addr # 0
  THEN /\ \A i \in 1..Len(log) :
            \/ /\ log[i].addr = RV3028_ADDRESS
               /\ \E j \in 1..(i - 1) : log[j] = MuxSelect
               /\ log[1] = MuxSelect
            \/ /\ log[i].addr = mux_addr
               /\ log[i].kind = "write"
               /\ log[i].w = <<mux_chan>>
  ELSE \A i \in 1..Len(log) : log[i].addr = RV3028_ADDRESS

\* set_alarm on a handle behind the mux at 0x70: the channel write, then the
\* transactions to the RTC
C26_Witness ==
  /\ mux_addr = 112
  /\ call.op = "set_alarm"
  /\ result = "ok"
  /\ Len(log) > 5
  /\ log[1] = MuxSelect
  /\ \A i \in 2..Len(log) : log[i].addr = RV3028_ADDRESS

\* the reading in which the channel write comes immediately before each
\* transaction to the RTC
C26_MuxBeforeEach ==
  mux_addr # 0 =>
    \A i \in 1..Len(log) :
      log[i].addr = RV3028_ADDRESS => (i > 1 /\ log[i - 1] = MuxSelect)

(***************************************************************************)
(* SpecUnixTime: the Unix counter is set and read, once or until two reads *)
(* agree, while the device counts seconds.                                 *)
(***************************************************************************)
MaxUnixTicks == 3

\* u32 values with their four bytes, least significant first
UnixSamples ==
  {[u |-> <<>>,               le |-> <<0, 0, 0, 0>>],
   [u |-> <<255>>,            le |-> <<255, 0, 0, 0>>],
   [u |-> <<5535, 6>>,        le |-> <<255, 255, 0, 0>>],
   [u |-> <<9060, 1690>>,     le |-> <<4, 3, 2, 1>>],
   [u |-> <<3648, 4748, 21>>, le |-> <<0, 0, 0, 128>>],
   [u |-> U32Max,             le |-> <<255, 255, 255, 255>>]}

UnixBytes(r) == [i \in 1..4 |-> r[REG_UNIX_TIME_0 + i - 1]]

\* the 32-bit counter plus one, wrapping to 0
RECURSIVE IncBytes(_)
IncBytes(b) ==
  IF b = <<>> THEN <<>>
  ELSE IF Head(b) = 255 THEN <<0>> \o IncBytes(Tail(b))
  ELSE <<Head(b) + 1>> \o Tail(b)

RECURSIVE IncTimes(_, _)
IncTimes(b, k) == IF k = 0 THEN b ELSE IncTimes(IncBytes(b), k - 1)

Init_UnixTime ==
  /\ regs \in {WriteRegs(ZeroRegs, REG_UNIX_TIME_0, s.le) : s \in UnixSamples}
  /\ pre = regs
  /\ \E h \in Handles : InitHandle(h)

Call_set_unix_time ==
  \E s \in UnixSamples :
    Start([op |-> "set_unix_time", unix_time |-> s.u], set_unix_time(s.u),
          FALSE)

Call_get_unix_time_blocking ==
  Start([op |-> "get_unix_time_blocking"], get_unix_time_blocking, FALSE)

\* the device counts a second while a read operation runs, at most
\* MaxUnixTicks times during one operation
DeviceSecondTick ==
  /\ result = "running"
  /\ call.op \in {"get_unix_time", "get_unix_time_blocking"}
  /\ \E k \in 0..(MaxUnixTicks - 1) :
       UnixBytes(regs) = IncTimes(UnixBytes(pre), k)
  /\ regs' = WriteRegs(regs, REG_UNIX_TIME_0, IncBytes(UnixBytes(regs)))
  /\ UNCHANGED <<mux_addr, mux_chan, mux_sel, other, call, prog, reg_val,
                 rbuf, log, result, ret, prev, pre, ncalls>>

Next_UnixTime ==
  \/ Call_set_unix_time
  \/ Call_get_unix_time
  \/ Call_get_unix_time_blocking
  \/ Bus
  \/ DeviceSecondTick

SpecUnixTime == Init_UnixTime /\ [][Next_UnixTime]_vars

Blocking == call.op = "get_unix_time_blocking"

\* the step in which a read of the counter succeeds
CounterRead ==
  /\ result = "running"
  /\ Len(log') = Len(log) + 1
  /\ log'[Len(log')] =
       Txn("write_read", RV3028_ADDRESS, <<REG_UNIX_TIME_0>>, 4, TRUE)

\* C27: get_unix_time_blocking returns v only in the step in which the second
\* read of a pair gives the same four bytes v as the first; the second read
\* of a pair that differs does not return; a bus error on a read is returned
\* at once.
C27_BlockingReturnsAgreedPair ==
  /\ [][(Blocking /\ result = "running" /\ result' = "ok") =>
          /\ CounterRead
          /\ rbuf = UnixBytes(regs)
          /\ rbuf' = rbuf \o UnixBytes(regs)
          /\ ret'.val = from_le_bytes(UnixBytes(regs))]_vars
  /\ [][(Blocking /\ CounterRead /\ Len(rbuf) = 4 /\ rbuf # UnixBytes(regs)) =>
          /\ result' = "running"
          /\ prog' = get_unix_time_blocking
          /\ rbuf' = <<>>]_vars
  /\ [](Blocking =>
          \A i \in FailedTxns(log) : i = Len(log) /\ result = "err")

\* the counter went from 0xFFFFFFFF to 0 between the reads of the first
\* pair; the second pair agreed and 0 is returned
C27_Witness ==
  /\ Blocking
  /\ result = "ok"
  /\ UnixBytes(pre) = <<255, 255, 255, 255>>
  /\ Len(DeviceTxns(log)) = 4
  /\ ret.val = <<>>

(***************************************************************************)
(* SpecUnixTimeFair: get_unix_time_blocking on a bus whose transactions    *)
(* complete, while the device counts at most MaxUnixTicks seconds during   *)
(* the call: the counter ends up unchanged across a pair of reads.         *)
(***************************************************************************)
Next_UnixTimeFair ==
  \/ Call_set_unix_time
  \/ Call_get_unix_time_blocking
  \/ BusOk
  \/ DeviceSecondTick

SpecUnixTimeFair ==
  Init_UnixTime /\ [][Next_UnixTimeFair]_vars /\ WF_vars(BusOk)

SecondReadOfPair == Blocking /\ CounterRead /\ Len(rbuf) = 4

\* C28: get_unix_time_blocking returns in the step in which a pair of reads
\* agrees, goes round the loop again at every pair that differs, whatever the
\* number of pairs read so far, and so returns once the counter stays
\* unchanged across a pair.
C28_BlockingTerminates ==
  /\ (Blocking /\ result = "running") ~> (Blocking /\ result = "ok")
  /\ [][(SecondReadOfPair /\ rbuf = UnixBytes(regs)) => result' = "ok"]_vars
  /\ [][(SecondReadOfPair /\ rbuf # UnixBytes(regs)) =>
          (result' = "running" /\ prog' = get_unix_time_blocking)]_vars

\* every pair differed for as long as the device counted: MaxUnixTicks pairs
\* were read in vain and the next one agreed
C28_Witness ==
  /\ Blocking
  /\ result = "ok"
  /\ Len(DeviceTxns(log)) = 2 * (MaxUnixTicks + 1)
  /\ UnixBytes(regs) = IncTimes(UnixBytes(pre), MaxUnixTicks)

SampleOf(u) == CHOOSE s \in UnixSamples : s.u = u

GetAfterSetUnixTime ==
  /\ call.op = "get_unix_time"
  /\ result = "ok"
  /\ prev.call.op = "set_unix_time"
  /\ prev.result = "ok"
  /\ UnixBytes(regs) = UnixBytes(pre)

\* C29: set_unix_time(u) sends to the device one write, of 0x1B followed by
\* the four bytes of u least significant first, and changes no register but
\* the four of the counter; a get_unix_time that follows it with no increment
\* of the counter in between returns u.
C29_UnixTimeRoundTrip ==
  /\ call.op = "set_unix_time" =>
       LET le == SampleOf(call.unix_time).le
       IN /\ \E n \in 0..1 :
               Sent(DeviceTxns(log)) =
                 SubSeq(<<<<"write", <<REG_UNIX_TIME_0>> \o le>>>>, 1, n)
          /\ \A a \in RegAddrs \ UnixBlock : regs[a] = pre[a]
          /\ UnixBytes(regs) = IF result = "ok" THEN le ELSE UnixBytes(pre)
          /\ result = "ok" => Len(DeviceTxns(log)) = 1
  /\ GetAfterSetUnixTime =>
       /\ ret.val = prev.call.unix_time
       /\ UnixBytes(regs) = SampleOf(prev.call.unix_time).le

\* 0xFFFFFFFF was set and is read back
C29_Witness ==
  /\ GetAfterSetUnixTime
  /\ prev.call.unix_time = U32Max
  /\ UnixBytes(regs) = <<255, 255, 255, 255>>
  /\ ret.val = U32Max

(***************************************************************************)
(* SpecBcd: one of the two BCD conversions is applied to a byte, and the   *)
(* other one to its result.                                                *)
(***************************************************************************)
Init_Bcd ==
  /\ regs = ZeroRegs
  /\ pre = regs
  /\ mux_addr = 0
  /\ mux_chan = 0
  /\ mux_sel = 0
  /\ other = NoOther
  /\ \E op \in {"bin_to_bcd", "bcd_to_bin"}, value \in 0..255 :
       call = [op |-> op, value |-> value]
  /\ prog = <<>>
  /\ reg_val = 0
  /\ rbuf = <<>>
  /\ log = <<>>
  /\ result = "idle"
  /\ ret = Ok(<<>>)
  /\ prev = [call |-> NoCall, result |-> "idle", ret |-> Ok(<<>>)]
  /\ ncalls = 0

\* rbuf holds the value converted last
Eval_bin_to_bcd ==
  /\ \/ /\ call.op = "bin_to_bcd"
        /\ result = "idle"
        /\ rbuf' = <<bin_to_bcd(call.value)>>
        /\ result' = "running"
        /\ ret' = ret
     \/ /\ call.op = "bcd_to_bin"
        /\ result = "running"
        /\ rbuf' = rbuf
        /\ result' = "ok"
        /\ ret' = Ok(<<bin_to_bcd(rbuf[1])>>)
  /\ ncalls' = ncalls + 1
  /\ UNCHANGED <<regs, mux_addr, mux_chan, mux_sel, other, call, prog,
                 reg_val, log, prev, pre>>

Eval_bcd_to_bin ==
  /\ \/ /\ call.op = "bcd_to_bin"
        /\ result = "idle"
        /\ rbuf' = <<bcd_to_bin(call.value)>>
        /\ result' = "running"
        /\ ret' = ret
     \/ /\ call.op = "bin_to_bcd"
        /\ result = "running"
        /\ rbuf' = rbuf
        /\ result' = "ok"
        /\ ret' = Ok(<<bcd_to_bin(rbuf[1])>>)
  /\ ncalls' = ncalls + 1
  /\ UNCHANGED <<regs, mux_addr, mux_chan, mux_sel, other, call, prog,
                 reg_val, log, prev, pre>>

Next_Bcd == Eval_bin_to_bcd \/ Eval_bcd_to_bin

SpecBcd == Init_Bcd /\ [][Next_Bcd]_vars

\* C30: for v in 0..99, bin_to_bcd(v) has the tens digit of v in its high
\* nibble and the ones digit in its low nibble, and bcd_to_bin of it is v;
\* for a byte b whose nibbles are both at most 9, bcd_to_bin(b) is ten times
\* the high nibble plus the low nibble, and bin_to_bcd of it is b.
C30_BcdRoundTrip ==
  /\ (call.op = "bin_to_bcd" /\ call.value <= 99 /\ result # "idle") =>
       /\ rbuf[1] \div 16 = call.value \div 10
       /\ rbuf[1] % 16 = call.value % 10
       /\ result = "ok" => ret.val = <<call.value>>
  /\ (call.op = "bcd_to_bin" /\ call.value \div 16 <= 9
        /\ call.value % 16 <= 9 /\ result # "idle") =>
       /\ rbuf[1] = 10 * (call.value \div 16) + (call.value % 16)
       /\ result = "ok" => ret.val = <<call.value>>

\* 99 is encoded as 0x99 and decoded as 99
C30_Witness ==
  /\ call = [op |-> "bin_to_bcd", value |-> 99]
  /\ result = "ok"
  /\ rbuf = <<153>>
  /\ ret.val = <<99>>

\* 0x59 is decoded as 59 and encoded as 0x59
C30_DecodeWitness ==
  /\ call = [op |-> "bcd_to_bin", value |-> 89]
  /\ result = "ok"
  /\ rbuf = <<59>>
  /\ ret.val = <<89>>

(***************************************************************************)
(* SpecTrickle: trickle charging is configured on a device whose backup    *)
(* configuration register holds any of several contents.                   *)
(***************************************************************************)
BackupConfigs == {0, 255, 32, 35, 34, 222, 29}

\* TrickleChargeCurrentLimiter: Ohms3k, Ohms5k, Ohms9k, Ohms15k
TrickleChargeCurrentLimiter == 0..3

Init_Trickle ==
  /\ regs \in {[ZeroRegs EXCEPT ![REG_EEPROM_BACKUP_CONFIG] = b] :
                 b \in BackupConfigs}
  /\ pre = regs
  /\ \E h \in Handles : InitHandle(h)

Call_config_trickle_charge ==
  \E enable \in BOOLEAN, limit_resistance \in TrickleChargeCurrentLimiter :
    Start([op |-> "config_trickle_charge", enable |-> enable,
           limit_resistance |-> limit_resistance],
          config_trickle_charge(enable, limit_resistance), FALSE)

Next_Trickle == Call_config_trickle_charge \/ Bus

SpecTrickle == Init_Trickle /\ [][Next_Trickle]_vars

Charging(r) == 0 # BitAnd(r[REG_EEPROM_BACKUP_CONFIG], TrickleChargeEnableBit)
Resistance(r) ==
  BitAnd(r[REG_EEPROM_BACKUP_CONFIG], TrickleChargeResistanceBits)

OkWrites(l) ==
  SelectSeq(l, LAMBDA t : t.addr = RV3028_ADDRESS /\ t.kind = "write" /\ t.ok)

\* C31: config_trickle_charge clears the enable bit, then the resistance
\* bits, and only for enable = true sets the resistance bits to
\* limit_resistance and then the enable bit; from its first write on, charging
\* is never enabled with resistance bits other than limit_resistance; on Ok it
\* returns the enable bit as read back, with enable = false the resistance
\* bits are 00, and no other bit of the register and no other register has
\* changed.
C31_TrickleChargeOrder ==
  call.op = "config_trickle_charge" =>
    LET w    == OkWrites(log)
        b0   == pre[REG_EEPROM_BACKUP_CONFIG]
        b1   == BitAnd(b0, 255 - TrickleChargeEnableBit)
        b2   == BitAnd(b1, 255 - TrickleChargeResistanceBits)
        b3   == BitOr(b2, call.limit_resistance)
        b4   == BitOr(b3, TrickleChargeEnableBit)
        all  == IF call.enable THEN <<b1, b2, b3, b4>> ELSE <<b1, b2>>
    IN /\ Len(w) <= Len(all)
       /\ \A i \in 1..Len(w) : w[i].w = <<REG_EEPROM_BACKUP_CONFIG, all[i]>>
       /\ (Len(w) >= 1 /\ Charging(regs)) =>
            Resistance(regs) = call.limit_resistance
       /\ \A a \in RegAddrs \ {REG_EEPROM_BACKUP_CONFIG} : regs[a] = pre[a]
       /\ BitAnd(regs[REG_EEPROM_BACKUP_CONFIG], 220) = BitAnd(b0, 220)
       /\ result = "ok" =>
            /\ Len(w) = Len(all)
            /\ ret.val = <<Charging(regs)>>
            /\ Charging(regs) = call.enable
            /\ Resistance(regs) = IF call.enable THEN call.limit_resistance
                                  ELSE 0

\* charging was on with 15 kOhm; it is now on with 5 kOhm, through the four
\* writes
C31_Witness ==
  /\ call = [op |-> "config_trickle_charge", enable |-> TRUE,
             limit_resistance |-> 1]
  /\ result = "ok"
  /\ pre[REG_EEPROM_BACKUP_CONFIG] = 35
  /\ regs[REG_EEPROM_BACKUP_CONFIG] = 33
  /\ Len(OkWrites(log)) = 4
  /\ ret.val = <<TRUE>>

(***************************************************************************)
(* SpecClockRange: set_datetime with years outside 2000..2099.             *)
(***************************************************************************)
WideDateTimes ==
  {DT(1969, 12, 31, 23, 59, 59), DT(1970, 1, 1, 0, 0, 0),
   DT(1999, 12, 31, 23, 59, 59), DT(2100, 3, 1, 12, 34, 56),
   DT(2106, 2, 7, 6, 28, 15), DT(2106, 2, 7, 6, 28, 16),
   DT(2107, 1, 1, 0, 0, 0), DT(1900, 1, 1, 0, 0, 0)}

Call_set_datetime_wide ==
  \E dt \in WideDateTimes :
    Start([op |-> "set_datetime", dt |-> dt], set_datetime(dt),
          set_datetime_panics(dt))

Next_ClockRange ==
  \/ Call_set_datetime_wide
  \/ Call_get_ymd
  \/ Bus

SpecClockRange == Init_Clock /\ [][Next_ClockRange]_vars

SetOutOfRange ==
  /\ call.op = "set_datetime"
  /\ call.dt.year \notin 2000..2099

\* C32: set_datetime with a year outside 2000..2099 signals nothing: it sends
\* its three device writes and, when none of them fails, returns Ok.
C32_SetDatetimeUnvalidated ==
  SetOutOfRange =>
    /\ result # "panic"
    /\ (result # "running" /\ FailedTxns(log) = {}) =>
         (result = "ok" /\ Len(OkWrites(log)) = 3)

\* 31 December 1969: the call panics with nothing sent
C32_Witness ==
  /\ SetOutOfRange
  /\ call.dt = DT(1969, 12, 31, 23, 59, 59)
  /\ result = "panic"
  /\ log = <<>>
  /\ regs = pre

\* C32 for the datetimes from 1970-01-01T00:00:00 to 2106-02-07T06:28:15,
\* whose timestamp is a u32: the three writes are sent, with the year byte 0
\* before 2001 and the BCD of year - 2000 after 2099
C32_SetDatetimeUnvalidatedInU32 ==
  (SetOutOfRange /\ FitsU32(timestamp(call.dt))) =>
    /\ result # "panic"
    /\ (result # "running" /\ FailedTxns(log) = {}) =>
         /\ result = "ok"
         /\ Len(OkWrites(log)) = 3
         /\ regs[REG_DATE + 2] =
              IF call.dt.year < 2000 THEN 0
              ELSE 160 + (call.dt.year - 2100)

C32_TruncatedWitness ==
  /\ SetOutOfRange
  /\ call.dt = DT(2100, 3, 1, 12, 34, 56)
  /\ result = "ok"
  /\ regs[REG_DATE + 2] = 160

\* ---- C33: the read-modify-write of the bit helpers is not atomic ----

\* the flags of the status register the device has raised since the helper
\* read it: set in the register, clear in the value the helper holds
RaisedSinceRead ==
  {f \in CheckedFlags : BitAnd(reg_val, f) = 0 /\ BitAnd(regs[REG_STATUS], f) # 0}

\* the next bus transaction is the write-back of clear_reg_bits_raw
AtWriteBack ==
  /\ result = "running"
  /\ call.op \in StatusChecks
  /\ prog # <<>>
  /\ Head(prog).k = "write_and_not"

\* C33: when the write-back of clear_reg_bits_raw succeeds, the status
\* register holds the value read earlier with the checked flag cleared, so
\* every flag the device raised between the read and the write is cleared;
\* the call then returns only whether its own flag was set.
C33_WriteBackLosesFlag ==
  [][(AtWriteBack /\ log' # log /\ log'[Len(log')].ok)
       => /\ regs'[REG_STATUS]
               = BitAnd(reg_val, BitNot(CheckedFlag(call.op)))
          /\ \A f \in RaisedSinceRead : BitAnd(regs'[REG_STATUS], f) = 0
          /\ result' = "ok"
          /\ ret'.val = <<TRUE>>]_vars

\* a countdown expiry raised between the read and the write-back of
\* check_and_clear_alarm
C33_Witness ==
  /\ AtWriteBack
  /\ call.op = "check_and_clear_alarm"
  /\ PeriodicTimerFlag \in RaisedSinceRead

(***************************************************************************)
(* SpecShared: two handles made with new_with_mux for channels 1 and 2 of  *)
(* one mux share the bus.  Each has its own device behind its channel.     *)
(* The variables of the operation are those of the handle that has the     *)
(* bus; `other` holds the handle that waits.  The bus passes from one      *)
(* handle to the other between any two transactions.                       *)
(* SpecSerial: the same, but the bus passes only between operations, and   *)
(* between operations a third user of the bus may switch the mux to a      *)
(* channel of its own.  The mux starts with whatever channel the last use  *)
(* of the bus left selected.                                               *)
(***************************************************************************)
SharedMuxAddr == 112
ChannelA == 1
ChannelB == 2
MUX_CHAN_TWO == 4

\* the contents of the two devices: user RAM and the alarm flag
SharedRegsA ==
  {[ZeroRegs EXCEPT ![REG_USER_RAM1] = 55, ![REG_USER_RAM1 + 1] = 77,
                    ![REG_STATUS] = st] : st \in {0, AlarmFlagBit}}

SharedRegsB ==
  {[ZeroRegs EXCEPT ![REG_USER_RAM1] = 11, ![REG_USER_RAM1 + 1] = 22,
                    ![REG_STATUS] = st] : st \in {0, AlarmFlagBit}}

Init_Shared ==
  /\ regs \in SharedRegsA
  /\ pre = regs
  /\ mux_addr = SharedMuxAddr
  /\ mux_chan = ChannelA
  /\ mux_sel \in {0, ChannelA, ChannelB}
  /\ \E r \in SharedRegsB : other = Parked(ChannelB, r)
  /\ call = NoCall
  /\ prog = <<>>
  /\ reg_val = 0
  /\ rbuf = <<>>
  /\ log = <<>>
  /\ result = "idle"
  /\ ret = Ok(<<>>)
  /\ prev = [call |-> NoCall, result |-> "idle", ret |-> Ok(<<>>)]
  /\ ncalls = 0

\* the handle that waited gets the bus, the one that had it waits
Switch ==
  /\ other' = [mux_chan |-> mux_chan, call |-> call, prog |-> prog,
               reg_val |-> reg_val, rbuf |-> rbuf, log |-> log,
               result |-> result, ret |-> ret, prev |-> prev, pre |-> pre,
               regs |-> regs]
  /\ mux_chan' = other.mux_chan
  /\ call' = other.call
  /\ prog' = other.prog
  /\ reg_val' = other.reg_val
  /\ rbuf' = other.rbuf
  /\ log' = other.log
  /\ result' = other.result
  /\ ret' = other.ret
  /\ prev' = other.prev
  /\ pre' = other.pre
  /\ regs' = other.regs
  /\ UNCHANGED <<mux_addr, mux_sel, ncalls>>

\* the callers serialize whole operations: the bus passes when no operation
\* is running
SwitchBetweenOperations == result # "running" /\ Switch

\* between two operations a third user of the bus writes the mux, to reach a
\* device of its own behind another channel
MuxdevWrite ==
  /\ result # "running"
  /\ mux_sel' = MUX_CHAN_TWO
  /\ UNCHANGED <<regs, mux_addr, mux_chan, other, call, prog, reg_val, rbuf,
                 log, result, ret, prev, pre, ncalls>>

Next_Shared ==
  \/ Call_check_and_clear_alarm
  \/ Call_set_user_ram
  \/ Call_get_user_ram
  \/ Bus
  \/ Switch

SpecShared == Init_Shared /\ [][Next_Shared]_vars

Next_Serial ==
  \/ Call_check_and_clear_alarm
  \/ Call_set_user_ram
  \/ Call_get_user_ram
  \/ Call_toggle_write_protect_enabled
  \/ Bus
  \/ SwitchBetweenOperations
  \/ MuxdevWrite

SpecSerial == Init_Shared /\ [][Next_Serial]_vars

\* the step is a transaction with the RTC that succeeded
RtcTxnStep ==
  /\ mux_chan' = mux_chan
  /\ Len(log') = Len(log) + 1
  /\ log'[Len(log')].addr = RV3028_ADDRESS
  /\ log'[Len(log')].ok

\* C34: a write issued by a handle lands in the device behind the channel the
\* mux received last, whichever handle issued it: when that is the other
\* handle's channel the handle's own device is left as it was and the other
\* handle's device takes the write; a read returns the other device's bytes.
C34_DeliveredToSelectedChannel ==
  [][(RtcTxnStep /\ mux_sel # mux_chan)
       => /\ regs' = regs
          /\ IsWrite(Head(prog))
               => other'.regs = DeviceWrite(other.regs, Head(prog).reg,
                                            WriteData(Head(prog), reg_val))
          /\ Head(prog).k = "read"
               => rbuf' = rbuf \o ReadRegs(other.regs, Head(prog).reg,
                                           Head(prog).bits)]_vars

\* set_user_ram of the handle on channel 1 has returned Ok, its own device's
\* user RAM is as it was, and the device on channel 2, whose handle only read,
\* holds the bytes
C34_Witness ==
  /\ mux_chan = ChannelA
  /\ call.op = "set_user_ram"
  /\ result = "ok"
  /\ UserRam(regs) = <<55, 77>>
  /\ other.call.op = "get_user_ram"
  /\ other.prev.call = NoCall
  /\ UserRam(other.regs) = call.data
  /\ mux_sel = ChannelB

\* C35: when whole operations are serialized, every transaction with the RTC
\* is made while the mux has the issuing handle's channel selected, and no
\* step of a handle changes the device behind the other handle's channel.
C35_SerializedDelivery ==
  [][(mux_chan' = mux_chan)
       => /\ other'.regs = other.regs
          /\ RtcTxnStep => mux_sel = mux_chan]_vars

\* both handles have written their own user RAM, one operation after the other
C35_Witness ==
  /\ call.op = "set_user_ram"
  /\ result = "ok"
  /\ other.call.op = "set_user_ram"
  /\ other.result = "ok"
  /\ call.data # other.call.data
  /\ UserRam(regs) = call.data
  /\ UserRam(other.regs) = other.call.data

(***************************************************************************)
(* SpecAlarmSeq: set_alarm is called any number of times on a device whose *)
(* alarm registers hold their reset value, any call may be cut short by a  *)
(* bus error, and the alarm is read back.                                  *)
(***************************************************************************)
Init_AlarmSeq ==
  /\ regs = ZeroRegs
  /\ pre = regs
  /\ \E h \in Handles : InitHandle(h)

Call_set_alarm_again ==
  \E f \in AlarmCorners, b \in BOOLEAN :
    LET c == AlarmCall(f, b, b, b)
    IN Start(c, set_alarm(c.dt, c.weekday, c.match_day, c.match_hour,
                          c.match_minute), FALSE)

Next_AlarmSeq ==
  \/ Call_set_alarm_again
  \/ Call_get_alarm_datetime_wday_matches
  \/ Bus

SpecAlarmSeq == Init_AlarmSeq /\ [][Next_AlarmSeq]_vars

\* the weekday/date-alarm register holds a value the WADA mode decodes
AlarmDayDecodable(r) ==
  LET day == bcd_to_bin(BitAnd(127, r[REG_WEEKDAY_DATE_ALARM]))
  IN IF 0 = BitAnd(r[REG_CONTROL1], WadaBit) THEN day <= 6
     ELSE day >= 1 /\ day <= 31

\* C36: whatever set_alarm calls were made and wherever a bus error cut them
\* short, the weekday/date-alarm register holds a value the current WADA mode
\* decodes, and get_alarm_datetime_wday_matches does not panic.
C36_AlarmAlwaysDecodes ==
  /\ result # "running" => AlarmDayDecodable(regs)
  /\ call.op = "get_alarm_datetime_wday_matches" => result # "panic"

\* the read-back panics after a set_alarm that a bus error cut short
C36_Witness ==
  /\ call.op = "get_alarm_datetime_wday_matches"
  /\ result = "panic"
  /\ prev.call.op = "set_alarm"
  /\ prev.result = "err"
  /\ ~AlarmDayDecodable(regs)

\* C36 for calls that were not cut short: after a set_alarm that returned Ok
\* the register is decodable, and the read-back that follows returns Ok or
\* the bus error.
C36_DecodesAfterCompletedSetAlarm ==
  /\ (call.op = "set_alarm" /\ result = "ok") => AlarmDayDecodable(regs)
  /\ (call.op = "get_alarm_datetime_wday_matches"
        /\ prev.call.op = "set_alarm" /\ prev.result = "ok")
       => result # "panic"

C36_CompletedWitness ==
  /\ call.op = "get_alarm_datetime_wday_matches"
  /\ result = "ok"
  /\ prev.call.op = "set_alarm"
  /\ prev.result = "ok"

\* ---- C37: the tick count loaded for a positive duration ----

\* the requested duration is strictly positive
PositiveDuration(d) == ~d.neg /\ d.mag # <<>>

\* the preset in the timer-value registers
TimerValue(r) == r[REG_TIMER_VALUE0] + 256 * r[REG_TIMER_VALUE0 + 1]

\* C37: for a strictly positive duration config_countdown_timer selects at
\* least one tick, and when it has returned Ok the timer-value registers hold
\* a preset of at least 1.
C37_PositiveDurationLoadsTicks ==
  (call.op = "config_countdown_timer" /\ PositiveDuration(call.duration)
     /\ result \in {"running", "ok", "err"})
    => /\ call.pct.ticks >= 1
       /\ result = "ok" => TimerValue(regs) >= 1

\* 100 us: the countdown is started with a preset of 0
C37_Witness ==
  /\ call.op = "config_countdown_timer"
  /\ call.duration = Duration_microseconds(I64(100))
  /\ call.start
  /\ result = "ok"
  /\ call.pct.ticks = 0
  /\ TimerValue(regs) = 0
  /\ TimerEnabled(regs)

\* C37 for durations of at least one period of the fastest clock (244 us)
C37_AtLeastOnePeriodLoadsTicks ==
  (call.op = "config_countdown_timer" /\ PositiveDuration(call.duration)
     /\ BigLt(BigOf(243999), call.duration.mag)
     /\ result \in {"running", "ok", "err"})
    => /\ call.pct.ticks >= 1
       /\ result = "ok" => TimerValue(regs) >= 1

C37_LoadedWitness ==
  /\ call.op = "config_countdown_timer"
  /\ call.duration = Duration_microseconds(I64(73200))
  /\ result = "ok"
  /\ TimerValue(regs) = 300

\* ---- C38: EERD around the EEPROM commands ----

EerdSet(r) == 0 # BitAnd(r[REG_CONTROL1], EeerdBit)

\* C38: whenever set_write_protect_password has returned, with Ok or with a
\* bus error, automatic EEPROM refresh is enabled again (EERD = 0).
C38_EerdClearedOnReturn ==
  (call.op = "set_write_protect_password" /\ result \in {"ok", "err"})
    => ~EerdSet(regs)

\* a busy poll after the setting of EERD failed: the call has returned the
\* error and EERD is still set
C38_Witness ==
  /\ call.op = "set_write_protect_password"
  /\ result = "err"
  /\ EerdSet(regs)
  /\ ~EerdSet(pre)
  /\ log[Len(log)].kind = "write_read"
  /\ log[Len(log)].w = <<REG_STATUS>>
  /\ ~log[Len(log)].ok

\* C38 for the calls that return Ok: EERD is 0
C38_EerdClearedOnOk ==
  (call.op = "set_write_protect_password" /\ result = "ok") => ~EerdSet(regs)

C38_OkWitness ==
  /\ call.op = "set_write_protect_password"
  /\ result = "ok"
  /\ \E i \in 1..Len(log) :
       /\ log[i].ok
       /\ log[i].kind = "write"
       /\ log[i].w = <<REG_CONTROL1, EeerdBit>>

\* the busy-wait loops end once the device has cleared EEbusy: with a bus
\* that works and an EEPROM that finishes its command, the call returns
Next_PasswordFair ==
  \/ Call_set_write_protect_password
  \/ BusOk
  \/ DeviceEepromDone

SpecPasswordFair ==
  /\ Init_Password
  /\ [][Next_PasswordFair]_vars
  /\ WF_vars(BusOk)
  /\ WF_vars(DeviceEepromDone)

C38_BusyWaitsTerminate ==
  (IF call.op = "set_write_protect_password" THEN result = "running" ELSE FALSE)
    ~> (result # "running")

(***************************************************************************)
(* SpecExtEvent: config_ext_event_detection is called with every 8-bit     *)
(* filtering value.  No event arrives while it runs.                       *)
(***************************************************************************)
\* status, Control 2, clock interrupt mask and event control before the call
ExtEventInitRegs ==
  {[ZeroRegs EXCEPT ![REG_STATUS] = c[1], ![REG_CONTROL2] = c[2],
                    ![REG_CLOCK_INTERRUPT_MASK] = c[3],
                    ![REG_EVENT_CONTROL] = c[4]] :
     c \in {<<0, 0, 0, 0>>, <<255, 255, 255, 251>>, <<2, 132, 9, 97>>}}

Init_ExtEvent ==
  /\ regs \in ExtEventInitRegs
  /\ pre = regs
  /\ \E h \in Handles : InitHandle(h)

Call_config_ext_event_detection ==
  \E rising \in BOOLEAN, int_enable \in BOOLEAN, filtering \in 0..255,
     clockout_enable \in BOOLEAN :
    StartFirst([op |-> "config_ext_event_detection", rising |-> rising,
                int_enable |-> int_enable, filtering |-> filtering,
                clockout_enable |-> clockout_enable],
               config_ext_event_detection(rising, int_enable, filtering,
                                          clockout_enable), FALSE)

Next_ExtEvent == Call_config_ext_event_detection \/ Bus

SpecExtEvent == Init_ExtEvent /\ [][Next_ExtEvent]_vars

\* EHL, EIE, CEIE and EVF as the arguments ask, and the event-control bits
\* outside ET and EHL as they were
ExtEventPostState ==
  LET evc == regs[REG_EVENT_CONTROL]
      outside == 255 - EventFilteringTimeBits - EventHighLowBit
  IN /\ (0 # BitAnd(evc, EventHighLowBit)) <=> call.rising
     /\ (0 # BitAnd(regs[REG_CONTROL2], EventIntEnableBit)) <=> call.int_enable
     /\ (0 # BitAnd(regs[REG_CLOCK_INTERRUPT_MASK], ClockoutOnExtEvtBit))
          <=> call.clockout_enable
     /\ 0 = BitAnd(regs[REG_STATUS], EventFlagBit)
     /\ BitAnd(evc, outside) = BitAnd(pre[REG_EVENT_CONTROL], outside)

\* C39: after a successful config_ext_event_detection, for every 8-bit
\* filtering value, EHL equals rising, EIE equals int_enable, CEIE equals
\* clockout_enable, EVF is 0, and no bit of the event-control register outside
\* ET and EHL has changed.
C39_ExtEventPostState ==
  (call.op = "config_ext_event_detection" /\ result = "ok")
    => ExtEventPostState

\* filtering = 4 with rising = false: the call returns Ok with EHL set
C39_Witness ==
  /\ call.op = "config_ext_event_detection"
  /\ result = "ok"
  /\ call.filtering = 4
  /\ ~call.rising
  /\ 0 = BitAnd(pre[REG_EVENT_CONTROL], EventHighLowBit)
  /\ 0 # BitAnd(regs[REG_EVENT_CONTROL], EventHighLowBit)

\* C39 for the filtering values 0..3 of the ET field: the post-state holds
\* and ET is the filtering value
C39_ExtEventPostStateInRange ==
  (call.op = "config_ext_event_detection" /\ result = "ok"
     /\ call.filtering <= 3)
    => /\ ExtEventPostState
       /\ BitAnd(regs[REG_EVENT_CONTROL], EventFilteringTimeBits)
            = call.filtering * 16

C39_InRangeWitness ==
  /\ call.op = "config_ext_event_detection"
  /\ result = "ok"
  /\ call.filtering = 3
  /\ call.rising
  /\ pre[REG_EVENT_CONTROL] = 97
  /\ regs[REG_EVENT_CONTROL] = 113

(***************************************************************************)
(* SpecConfig: the operations that switch single settings of the device:   *)
(* interrupt enables, clock output, status flags, the backup switchover,   *)
(* the time stamp log, and the reads of single settings.  The password     *)
(* settings are read from the EEPROM, which holds what the last update     *)
(* stored and not what was written to the mirror registers since.          *)
(***************************************************************************)
\* a device with nothing set; one with every setting and flag set except the
\* timer enable and a countdown value of 3; one that is write protected and
\* locked; one with a password stored, protection not enabled and a stale
\* byte in EEDATA; and that one after the enable byte and the first password
\* byte of the mirror were overwritten and not stored
ConfigInitRegs ==
  {ZeroRegs,
   Stored([ZeroRegs EXCEPT ![REG_TIMER_VALUE0] = 3,
                           ![REG_STATUS] = 255,
                           ![REG_CONTROL1] = 255 - TimerEnableBit,
                           ![REG_CONTROL2] = 255,
                           ![REG_CLOCK_INTERRUPT_MASK] = 255,
                           ![REG_EVENT_CONTROL] = 255 - TimeStampResetBit,
                           ![REG_EEPROM_CLKOUT] = 7,
                           ![REG_EEPROM_BACKUP_CONFIG] = 255]),
   Stored(WithPasswords(ZeroRegs, 255, <<1, 2, 3, 4>>, <<0, 0, 0, 0>>)),
   Stored(WithPasswords([ZeroRegs EXCEPT ![REG_EEPROM_EE_DATA] = 119],
                        1, <<9, 8, 7, 6>>, <<1, 2, 3, 4>>)),
   WithPasswords(Stored(WithPasswords(ZeroRegs, 1, <<9, 8, 7, 6>>,
                                      <<0, 0, 0, 0>>)),
                 0, <<5, 8, 7, 6>>, <<0, 0, 0, 0>>)}

Init_Config ==
  /\ regs \in ConfigInitRegs
  /\ pre = regs
  /\ \E h \in Handles : InitHandle(h)

Call_toggle_alarm_int_enable ==
  \E enable \in BOOLEAN :
    Start([op |-> "toggle_alarm_int_enable", enable |-> enable],
          set_or_clear_reg_bits(REG_CONTROL2, AlarmIntEnableBit, enable),
          FALSE)

Call_toggle_countdown_int_enable ==
  \E enable \in BOOLEAN :
    Start([op |-> "toggle_countdown_int_enable", enable |-> enable],
          set_or_clear_reg_bits(REG_CONTROL2, TimerIntEnableBit, enable),
          FALSE)

Call_toggle_ext_event_int_enable ==
  \E enable \in BOOLEAN :
    Start([op |-> "toggle_ext_event_int_enable", enable |-> enable],
          set_or_clear_reg_bits(REG_CONTROL2, EventIntEnableBit, enable),
          FALSE)

Call_toggle_time_up_int_enable ==
  \E enable \in BOOLEAN :
    Start([op |-> "toggle_time_up_int_enable", enable |-> enable],
          set_or_clear_reg_bits(REG_CONTROL2, TimeUpdateIntEnableBit, enable),
          FALSE)

Call_toggle_event_high_low ==
  \E high \in BOOLEAN :
    Start([op |-> "toggle_event_high_low", high |-> high],
          set_or_clear_reg_bits(REG_EVENT_CONTROL, EventHighLowBit, high),
          FALSE)

Call_toggle_clockout_on_alarm ==
  \E enable \in BOOLEAN :
    Start([op |-> "toggle_clockout_on_alarm", enable |-> enable],
          set_or_clear_reg_bits(REG_CLOCK_INTERRUPT_MASK, ClockoutOnAlarmBit,
                                enable),
          FALSE)

Call_toggle_countdown_timer ==
  \E enable \in BOOLEAN :
    Start([op |-> "toggle_countdown_timer", enable |-> enable],
          set_or_clear_reg_bits(REG_CONTROL1, TimerEnableBit, enable), FALSE)

Call_toggle_time_stamp_overwrite ==
  \E enable \in BOOLEAN :
    Start([op |-> "toggle_time_stamp_overwrite", enable |-> enable],
          set_or_clear_reg_bits(REG_EVENT_CONTROL, TimeStampOverwriteBit,
                                enable),
          FALSE)

Call_set_event_timestamp_source ==
  \E source \in {TS_EVENT_SOURCE_EVI, TS_EVENT_SOURCE_BSF, 2} :
    Start([op |-> "set_event_timestamp_source", source |-> source],
          set_or_clear_reg_bits(REG_EVENT_CONTROL, TimeStampSourceBit,
                                TS_EVENT_SOURCE_BSF = source),
          FALSE)

Call_toggle_timestamp_logging ==
  \E enable \in BOOLEAN :
    Start([op |-> "toggle_timestamp_logging", enable |-> enable],
          toggle_timestamp_logging(enable), FALSE)

Call_reset_timestamp_log ==
  Start([op |-> "reset_timestamp_log"], reset_timestamp_log, FALSE)

Call_toggle_backup_switchover ==
  \E enable \in BOOLEAN :
    Start([op |-> "toggle_backup_switchover", enable |-> enable],
          toggle_backup_switchover(enable), FALSE)

Call_clear_all_int_clockout_bits ==
  Start([op |-> "clear_all_int_clockout_bits"], clear_all_int_clockout_bits,
        FALSE)

Call_clear_all_int_out_bits ==
  Start([op |-> "clear_all_int_out_bits"], clear_all_int_out_bits, FALSE)

Call_clear_all_status_flags ==
  Start([op |-> "clear_all_status_flags"], clear_all_status_flags, FALSE)

Call_configure_periodic_time_update ==
  \E minutes \in BOOLEAN, int_enable \in BOOLEAN :
    Start([op |-> "configure_periodic_time_update", minutes |-> minutes,
           int_enable |-> int_enable],
          configure_periodic_time_update(minutes, int_enable), FALSE)

Call_set_clockout_rate ==
  \E rate \in ClockoutRate :
    Start([op |-> "set_clockout_rate", rate |-> rate],
          set_clockout_rate(rate), FALSE)

Call_config_clockout ==
  \E int_enable \in BOOLEAN, rate \in ClockoutRate :
    Start([op |-> "config_clockout", int_enable |-> int_enable,
           rate |-> rate],
          config_clockout(int_enable, rate), FALSE)

Call_get_write_protect_settings ==
  Start([op |-> "get_write_protect_settings"], get_write_protect_settings,
        FALSE)

Call_check_write_protect_enabled ==
  Start([op |-> "check_write_protect_enabled"],
        select_mux_channel \o read_register_raw(REG_EEPROM_PASSWORD_ENABLE),
        FALSE)

Call_get_eeprom_backup_config ==
  Start([op |-> "get_eeprom_backup_config"],
        select_mux_channel \o read_register_raw(REG_EEPROM_BACKUP_CONFIG),
        FALSE)

Call_check_backup_event_flag ==
  Start([op |-> "check_backup_event_flag"],
        check_bits_nonzero(REG_STATUS, BackupSwitchFlag), FALSE)

Call_check_alarm_flag ==
  Start([op |-> "check_alarm_flag"],
        check_bits_nonzero(REG_STATUS, AlarmFlagBit), FALSE)

Call_get_countdown_value ==
  Start([op |-> "get_countdown_value"],
        read_multi_registers(REG_TIMER_STATUS0, 2), FALSE)

Next_Config ==
  \/ Call_toggle_alarm_int_enable
  \/ Call_toggle_countdown_int_enable
  \/ Call_toggle_ext_event_int_enable
  \/ Call_toggle_time_up_int_enable
  \/ Call_toggle_event_high_low
  \/ Call_toggle_clockout_on_alarm
  \/ Call_toggle_countdown_timer
  \/ Call_toggle_time_stamp_overwrite
  \/ Call_set_event_timestamp_source
  \/ Call_toggle_timestamp_logging
  \/ Call_reset_timestamp_log
  \/ Call_toggle_backup_switchover
  \/ Call_clear_all_int_clockout_bits
  \/ Call_clear_all_int_out_bits
  \/ Call_clear_all_status_flags
  \/ Call_configure_periodic_time_update
  \/ Call_set_clockout_rate
  \/ Call_config_clockout
  \/ Call_set_write_protect_password
  \/ Call_get_write_protect_settings
  \/ Call_check_write_protect_enabled
  \/ Call_get_eeprom_backup_config
  \/ Call_check_backup_event_flag
  \/ Call_check_alarm_flag
  \/ Call_get_countdown_value
  \/ DeviceEepromDone
  \/ Bus

SpecConfig == Init_Config /\ [][Next_Config]_vars

====
